---- MODULE Spec2Model ----
(***************************************************************************)
(* nginx-hibernator: the per-site controller (backend/src/controller.rs),  *)
(* its start cooldown (src/cooldown.rs) and the front-door connection      *)
(* handler (backend/src/server.rs), for one configured site.               *)
(*                                                                         *)
(* Time is counted in whole seconds.  keep_alive is configured in seconds; *)
(* the millisecond settings (start_timeout_ms, proxy_timeout_ms and the two*)
(* check intervals) are modelled in the same unit.                         *)
(*                                                                         *)
(* The running system holds every instant x as its age, now - x, and every *)
(* deadline d as the time left, d - now; Tick moves them all.  An age stops*)
(* growing at the first value no comparison of the code tells from a larger*)
(* one.  The pure functions (should_shutdown, try_mark_started) are written*)
(* on instants, as in the source, and are applied at the instant Epoch.    *)
(***************************************************************************)
EXTENDS Integers, Sequences, FiniteSets, TLC

\* ---------------------------------------------------------------- bounds
KeepAlive == 2            \* config.keep_alive
StartTimeout == 1         \* config.start_timeout_ms
ProxyTimeout == 1         \* config.proxy_timeout_ms
StartCheckInterval == 1   \* config.start_check_interval_ms
MaxNow == 4               \* largest instant given to the pure functions
MaxSamples == 2           \* largest config.eta_sample_size
MaxUtc == 2               \* clock readings of the store's write transactions
MaxStamp == 3             \* latest timestamp of a stored history
MaxResults == 2           \* largest min_results asked for
MaxPuts == 3              \* calls of put_connection_metadata
MaxSets == 3              \* calls of set_state on one controller
MaxClock == 4             \* latest instant the callers of try_mark_started read

Clients == {1, 2}    \* connection tasks spawned by setup_server
OneClient == {1}

\* ------------------------------------------------------------- constants
NoTime == -1         \* Option::None of an Option<u64>
i64_MAX == 99        \* i64::MAX nanoseconds: later than every clock reading
u64_MAX == 15        \* u64::MAX on a word of four bits

SiteStates == {"Unknown", "Down", "Up", "Starting"}

\* `state as usize` of enum SiteState { Unknown, Down, Up, Starting }
SiteState(s) ==
    CASE s = "Unknown" -> 0
      [] s = "Down" -> 1
      [] s = "Up" -> 2
      [] s = "Starting" -> 3

\* get_state decoding three states only
get_state_legacy(u) ==
    CASE u = 0 -> "Down"
      [] u = 1 -> "Up"
      [] u = 2 -> "Starting"
      [] OTHER -> "unreachable"

\* SiteController::get_state: decodes the AtomicUsize
get_state(u) ==
    CASE u = 0 -> "Unknown"
      [] u = 1 -> "Down"
      [] u = 2 -> "Up"
      [] u = 3 -> "Starting"
      [] OTHER -> "unreachable"

\* an is_up that takes every state for Up
is_up_always(s) == TRUE

\* SiteState::is_up
is_up(s) == s = "Up"

Max(a, b) == IF a >= b THEN a ELSE b

Min(a, b) == IF a <= b THEN a ELSE b

\* u64::saturating_sub
saturating_sub(a, b) == IF a >= b THEN a - b ELSE 0

\* ProxyMode defaults of SiteConfig
proxy_mode == "Always"
browser_proxy_mode == "WhenReady"

\* ------------------------------------------------------- should_shutdown
\* what reading the access log yields: a failure, no surviving line, or the
\* timestamp of the newest surviving line
LogInputs(t) ==
    {[kind |-> "Err", ts |-> NoTime], [kind |-> "NoLine", ts |-> NoTime]}
        \cup {[kind |-> "Line", ts |-> x] : x \in 0..t}

\* should_shutdown without the recorded stop
should_shutdown_no_stop(t, inp, st, last_changed, last_started, last_stopped) ==
    IF inp.kind = "Err" THEN [kind |-> "Err", at |-> NoTime]
    ELSE IF inp.kind = "NoLine"
    THEN IF ~is_up(st) THEN [kind |-> "NotUntil", at |-> t + KeepAlive]
         ELSE IF t - last_changed >= KeepAlive THEN [kind |-> "Now", at |-> NoTime]
         ELSE [kind |-> "NotUntil", at |-> last_changed + KeepAlive]
    ELSE LET last_request == inp.ts
             last_action == IF last_started # NoTime THEN Max(last_request, last_started)
                            ELSE last_request
             time_since == saturating_sub(t, last_action)
         IN  IF time_since > KeepAlive THEN [kind |-> "Now", at |-> NoTime]
             ELSE [kind |-> "NotUntil", at |-> last_action + KeepAlive + 1]

\* SiteController::should_shutdown at instant t: inp is the log, (st,
\* last_changed) is get_state_with_last_changed(), last_started and last_stopped
\* are the cooldown entries
should_shutdown(t, inp, st, last_changed, last_started, last_stopped) ==
    IF inp.kind = "Err" THEN [kind |-> "Err", at |-> NoTime]
    ELSE IF inp.kind = "NoLine"
    THEN IF ~is_up(st) THEN [kind |-> "NotUntil", at |-> t + KeepAlive]
         ELSE IF t - last_changed >= KeepAlive THEN [kind |-> "Now", at |-> NoTime]
         ELSE [kind |-> "NotUntil", at |-> last_changed + KeepAlive]
    ELSE LET last_request == inp.ts
             a1 == IF last_started # NoTime THEN Max(last_request, last_started)
                   ELSE last_request
             last_action == IF last_stopped # NoTime THEN Max(a1, last_stopped) ELSE a1
             time_since == saturating_sub(t, last_action)
         IN  IF time_since > KeepAlive THEN [kind |-> "Now", at |-> NoTime]
             ELSE [kind |-> "NotUntil", at |-> last_action + KeepAlive + 1]

\* cooldown::try_mark_started at instant t
try_mark_started(t, last_started) ==
    ~(last_started # NoTime /\ saturating_sub(t, last_started) < KeepAlive)

\* ----------------------------------------------------------------- state
VARIABLES
    backend,             \* TRUE while the upstream answers on config.port
    link,                \* target of the nginx_enabled_config symlink
    state,               \* SiteController.state (AtomicUsize)
    state_last_changed,  \* age of SiteController.state_last_changed, in milliseconds
    LAST_STARTED,        \* age of the site's entry of LAST_STARTED, or NoTime
    LAST_STOPPED,        \* age of the site's entry of LAST_STOPPED, or NoTime
    start_channel,       \* wake-ups held by the mpsc channel(1)
    next_check,          \* handle(): time left until next_check
    ctl,                 \* position of the controller task
    local,               \* locals of the running check()/start()
    calls,               \* commands, state stores and broadcasts of the running handler
    errors,              \* error!() lines of the running handler
    wake,                \* what the site was doing when the pending wake-up was sent
    client,              \* the connection tasks
    sd,                  \* an input of should_shutdown and the answer to it
    states,              \* Database.states: the rows (key, SiteState)
    connections,         \* Database.connections: the list under every key, <<>> for none
    utc,                 \* Utc::now() as the store's transactions read it
    wtxn,                \* the writer holding the environment's write transaction, or 0
    writer,              \* the callers of update_state and try_update_state
    pg,                  \* an input of get_progress and the answer to it
    pol,                 \* an input of the proxy decision and the answer to it
    query                \* the input, the locals and the answer of one operation

\* the controller, its cooldown entries and the connection tasks
site == <<backend, link, state, state_last_changed, LAST_STARTED, LAST_STOPPED,
          start_channel, next_check, ctl, local, calls, errors, wake, client>>

\* the states table with its clock, lock and writers
store == <<states, connections, utc, wtxn, writer>>

\* what the controller and the connection tasks never write
rest == <<store, pg, pol, query>>

vars == <<backend, link, state, state_last_changed, LAST_STARTED, LAST_STOPPED,
          start_channel, next_check, ctl, local, calls, errors, wake, client, sd,
          states, connections, utc, wtxn, writer, pg, pol, query>>

\* the last age told apart
Cap == KeepAlive + 1

\* the instant at which the running system applies the pure functions
Epoch == Cap

\* the instant whose age is a
At(a) == IF a = NoTime THEN NoTime ELSE Epoch - a

\* ages and times left after one second
Older(a, cap) == IF a = NoTime THEN NoTime ELSE Min(a + 1, cap)

Left(d) == IF d > 0 THEN d - 1 ELSE d

\* locals of the running handler: the state check() found, the answer of
\* should_shutdown, the time left until the instant check() returns, the age of
\* start()'s Instant, the time left of its sleep
NoLocal == [entry |-> "none", decision |-> "none", ret |-> NoTime,
            start |-> NoTime, sleep |-> NoTime]

\* a connection task: its position, the age of its timeout, whether the
\* broadcast reached its receiver, whether it arrived at an Up site with the
\* upstream answering ever since, its ConnectionResult, the status line it
\* answered with, and whether the task that ended before it put a record
IdleClient == [pc |-> "idle", t0 |-> NoTime, notified |-> FALSE, hot |-> FALSE,
               result |-> "none", status |-> "none", put |-> FALSE]

Writers == {1, 2}    \* tasks writing the states table

\* a writer outside any transaction
IdleWriter == [pc |-> "idle"]

\* service names, as their bytes: the site of the controller and another one
\* that begins with the same byte
SiteName == <<1>>
Services == {SiteName, <<1, 2>>}

\* exclude_states: no state, or the states of a site that runs or starts
Excludes == {{}, {"Up", "Starting"}}

\* Bincoded<StateChangeKey>::bytes_encode, big-endian: the length of the
\* service, its bytes, the timestamp (an integer stands for its 8 bytes)
bytes_encode(key) == <<Len(key.service)>> \o key.service \o <<key.timestamp>>

\* Bincoded<StateChangeKey>::bytes_decode
bytes_decode(bytes) ==
    [service |-> SubSeq(bytes, 2, 1 + bytes[1]), timestamp |-> bytes[Len(bytes)]]

\* the order LMDB keeps its keys in: byte by byte, a prefix first
KeyLeq(a, b) ==
    \/ \E i \in 1..Min(Len(a), Len(b)) :
            /\ a[i] < b[i]
            /\ \A j \in 1..(i - 1) : a[j] = b[j]
    \/ /\ Len(a) <= Len(b)
       /\ \A j \in 1..Len(a) : a[j] = b[j]

\* heed Database::put: one value per key
put(table, key, value) ==
    {r \in table : r.key # bytes_encode(key)}
        \cup {[key |-> bytes_encode(key), value |-> value]}

\* no row: the iterator is at its end
NoRow == [key |-> <<>>, value |-> "none"]

\* rev_range(min..=max).next() for the keys of one service: the row with the
\* greatest key between (name, 0) and (name, i64::MAX), or NoRow
last_row(table, name) ==
    LET min == bytes_encode([service |-> name, timestamp |-> 0])
        max == bytes_encode([service |-> name, timestamp |-> i64_MAX])
        range == {r \in table : KeyLeq(min, r.key) /\ KeyLeq(r.key, max)}
    IN  IF range = {} THEN NoRow
        ELSE CHOOSE r \in range : \A q \in range : KeyLeq(q.key, r.key)

\* Database::get_last_state: the state of the most recent row ("none": the
\* error No state found)
get_last_state(table, name) == last_row(table, name).value

\* no read asked
NoQuery == [op |-> "none"]

\* Option<(Duration, Duration)>::None
None == [kind |-> "None", done |-> NoTime, estimate |-> NoTime]

NoPg == [now_ms |-> NoTime, eta_sample_size |-> 0, st |-> "none",
         last_changed_ms |-> NoTime, estimate |-> NoTime,
         out |-> [kind |-> "none", done |-> NoTime, estimate |-> NoTime]]

\* get_progress that answers only for a Starting site
get_progress_starting_only(now_ms, eta_sample_size, st, last_changed_ms, estimate) ==
    IF eta_sample_size = 0 \/ st # "Starting" \/ estimate = NoTime THEN None
    ELSE [kind |-> "Some", done |-> now_ms - last_changed_ms, estimate |-> estimate]

\* SiteController::get_progress at the instant now_ms: (st, last_changed_ms) is
\* get_state_with_last_changed_ms(), estimate is what
\* DATABASE.get_start_duration_estimate returns (NoTime: an error)
get_progress(now_ms, eta_sample_size, st, last_changed_ms, estimate) ==
    IF eta_sample_size = 0 THEN None
    ELSE LET last_changed == IF st # "Starting" THEN now_ms ELSE last_changed_ms
             done == now_ms - last_changed
         IN  IF estimate = NoTime THEN None
             ELSE [kind |-> "Some", done |-> done, estimate |-> estimate]


NoSd == [t |-> NoTime, inp |-> [kind |-> "none", ts |-> NoTime], st |-> "none",
         last_changed |-> NoTime, last_started |-> NoTime, last_stopped |-> NoTime,
         out |-> [kind |-> "none", at |-> NoTime]]

\* ------------------------------------------------------------ edge switch
\* what switching the edge can do: the link is moved and nginx reloads, the
\* link cannot be moved, or the link is moved and the reload fails
EdgeOutcomes == {"ok", "symlink_err", "reload_err"}

StateCall(s) ==
    CASE s = "Unknown" -> "state:Unknown"
      [] s = "Down" -> "state:Down"
      [] s = "Up" -> "state:Up"
      [] s = "Starting" -> "state:Starting"

\* what a handler works on: the controller's atomics, the symlink, and the
\* handler's trace (commands run, states stored, error lines)
Mem == [state |-> state, state_last_changed |-> state_last_changed, link |-> link,
        calls |-> calls, errors |-> errors]

Commit(m) ==
    /\ state' = m.state
    /\ state_last_changed' = m.state_last_changed
    /\ link' = m.link
    /\ calls' = m.calls
    /\ errors' = m.errors

\* util::run_command
run_command(m, cmd) == [m EXCEPT !.calls = Append(@, cmd)]

\* log::error!
error(m, line) == [m EXCEPT !.errors = @ \cup {line}]

\* util::checking_symlink and the reload that follows a change
switch_edge(m, original, call, e) ==
    IF e = "symlink_err" THEN error(run_command(m, call), "symlink")
    ELSE IF m.link = original THEN run_command(m, call)
    ELSE LET r == run_command(run_command([m EXCEPT !.link = original], call),
                              "nginx -s reload")
         IN  IF e = "reload_err" THEN error(r, "reload") ELSE r

\* on_down that leaves the edge alone
on_down_no_switch(m, e) == m

\* SiteController::on_down
on_down(m, e) == switch_edge(m, "hibernating", "switch:hibernating", e)

\* an on_up that gives the transition up when the edge cannot be switched
on_up_aborting(m, e) ==
    IF e = "ok" THEN switch_edge(m, "available", "switch:available", e)
    ELSE [error(m, "symlink") EXCEPT !.state = SiteState("Unknown")]

\* SiteController::on_up
on_up(m, e) == switch_edge(m, "available", "switch:available", e)

\* set_state without the comparison with the old state
set_state_always(m, s, e) ==
    LET stored == [m EXCEPT !.state = SiteState(s), !.state_last_changed = 0,
                            !.calls = Append(@, StateCall(s))]
    IN  CASE s = "Down" -> on_down(stored, e)
          [] s = "Up" -> on_up(stored, e)
          [] OTHER -> stored

\* SiteController::set_state
set_state(m, s, e) ==
    IF get_state(m.state) = s THEN m
    ELSE LET stored == [m EXCEPT !.state = SiteState(s), !.state_last_changed = 0,
                                 !.calls = Append(@, StateCall(s))]
         IN  CASE s = "Down" -> on_down(stored, e)
               [] s = "Up" -> on_up(stored, e)
               [] OTHER -> stored

\* SiteController::get_state_with_last_changed_ms
get_state_with_last_changed_ms == <<get_state(state), state_last_changed>>

\* SiteController::get_state_with_last_changed: whole seconds
get_state_with_last_changed ==
    <<get_state_with_last_changed_ms[1], At(get_state_with_last_changed_ms[2] \div 1000)>>

\* ------------------------------------------------------------ check()
\* check() once is_healthy and should_shutdown have answered: the trace, the
\* stop mark and the next check, as time left
check(healthy, inp, e, stop_ok) ==
    IF ~healthy
    THEN /\ Commit(set_state(Mem, "Down", e))
         /\ local' = [local EXCEPT !.entry = get_state(state), !.ret = KeepAlive]
         /\ UNCHANGED LAST_STOPPED
    ELSE LET d == should_shutdown(Epoch, inp, get_state_with_last_changed[1],
                                  get_state_with_last_changed[2],
                                  At(LAST_STARTED), At(LAST_STOPPED))
         IN  CASE d.kind = "Err" ->
                    /\ Commit(set_state(error(Mem, "check"), "Up", e))
                    /\ local' = [local EXCEPT !.entry = get_state(state), !.decision = "Err", !.ret = KeepAlive]
                    /\ UNCHANGED LAST_STOPPED
               [] d.kind = "Now" ->
                    LET down == run_command(set_state(Mem, "Down", e), "systemctl stop")
                    IN  /\ LAST_STOPPED' = 0
                        /\ Commit(IF stop_ok THEN down
                                  ELSE set_state(error(down, "stop"), "Unknown", e))
                        /\ local' = [local EXCEPT !.entry = get_state(state), !.decision = "Now", !.ret = KeepAlive]
               [] d.kind = "NotUntil" ->
                    /\ Commit(set_state(Mem, "Up", e))
                    /\ local' = [local EXCEPT !.entry = get_state(state), !.decision = "NotUntil",
                                              !.ret = d.at - Epoch]
                    /\ UNCHANGED LAST_STOPPED

\* a timer branch that drops the wake-up the other branch was about to take
HandleCheck_dropping ==
    /\ ctl = "select"
    /\ next_check = 0
    /\ \E inp \in LogInputs(Epoch), e \in EdgeOutcomes, stop_ok \in BOOLEAN :
            check(backend, inp, e, stop_ok)
    /\ ctl' = "checked"
    /\ start_channel' = 0
    /\ UNCHANGED <<backend, LAST_STARTED, next_check, wake, client, sd, rest>>

\* handle(): the sleep until next_check is over and check() runs
HandleCheck ==
    /\ ctl = "select"
    /\ next_check = 0
    /\ \E inp \in LogInputs(Epoch), e \in EdgeOutcomes, stop_ok \in BOOLEAN :
            check(backend, inp, e, stop_ok)
    /\ ctl' = "checked"
    /\ UNCHANGED <<backend, LAST_STARTED, start_channel, next_check, wake, client, sd, rest>>

\* a loop that forgets the time check() returned
HandleChecked_forgetting ==
    /\ ctl = "checked"
    /\ next_check' = 0
    /\ ctl' = "select"
    /\ local' = NoLocal
    /\ calls' = <<>>
    /\ errors' = {}
    /\ UNCHANGED <<backend, link, state, state_last_changed, LAST_STARTED, LAST_STOPPED,
                   start_channel, wake, client, sd, rest>>

\* handle(): next_check = self.check().await
HandleChecked ==
    /\ ctl = "checked"
    /\ next_check' = local.ret
    /\ ctl' = "select"
    /\ local' = NoLocal
    /\ calls' = <<>>
    /\ errors' = {}
    /\ UNCHANGED <<backend, link, state, state_last_changed, LAST_STARTED, LAST_STOPPED,
                   start_channel, wake, client, sd, rest>>

\* ------------------------------------------------------------ start()
\* start() up to the health loop: try_mark_started, systemctl start (start_ok:
\* it succeeds) and set_state(Starting); TRUE when the health loop is entered
start(start_ok) ==
    IF ~try_mark_started(Epoch, At(LAST_STARTED))
    THEN /\ UNCHANGED <<LAST_STARTED, state, state_last_changed, link, calls, errors, local>>
         /\ ctl' = "started"
    ELSE /\ LAST_STARTED' = 0
         /\ IF start_ok
            THEN /\ Commit(set_state(run_command(Mem, "systemctl start"), "Starting", "ok"))
                 /\ local' = [local EXCEPT !.start = 0, !.sleep = 0]
                 /\ ctl' = "starting"
            ELSE /\ Commit(error(run_command(Mem, "systemctl start"), "start"))
                 /\ UNCHANGED local
                 /\ ctl' = "started"

\* a receive branch that spawns start() beside a start() still in its loop
HandleStart_spawned ==
    /\ ctl \in {"select", "starting"}
    /\ start_channel = 1
    /\ start_channel' = 0
    /\ wake' = "none"
    /\ \E start_ok \in BOOLEAN : start(start_ok)
    /\ UNCHANGED <<backend, LAST_STOPPED, next_check, client, sd, rest>>

\* handle(): a wake-up is taken from the channel and start() runs
HandleStart ==
    /\ ctl = "select"
    /\ start_channel = 1
    /\ start_channel' = 0
    /\ wake' = "none"
    /\ \E start_ok \in BOOLEAN : start(start_ok)
    /\ UNCHANGED <<backend, LAST_STOPPED, next_check, client, sd, rest>>

\* a health loop without the timeout
loop_turn_no_timeout(elapsed, healthy) == IF healthy THEN "Up" ELSE "sleep"

\* start(): what one turn of the health loop decides
loop_turn(elapsed, healthy) ==
    IF elapsed > StartTimeout THEN "Unknown"
    ELSE IF healthy THEN "Up"
    ELSE "sleep"

\* a send that only one receiver gets
started_send_one(cl) ==
    [c \in Clients |->
        IF cl[c].pc = "waiting" /\ \A b \in Clients : cl[b].pc = "waiting" => c <= b
        THEN [cl[c] EXCEPT !.notified = TRUE]
        ELSE cl[c]]

\* broadcast Sender::send: every subscribed receiver gets the message
started_send(cl) ==
    [c \in Clients |-> IF cl[c].pc = "waiting" THEN [cl[c] EXCEPT !.notified = TRUE]
                       ELSE cl[c]]

\* a health loop that returns on its timeout without storing a state
StartLoop_leaving ==
    /\ ctl = "starting"
    /\ local.sleep = 0
    /\ LET turn == loop_turn(local.start, backend)
       IN  IF turn = "sleep"
           THEN /\ local' = [local EXCEPT !.sleep = StartCheckInterval]
                /\ UNCHANGED <<state, state_last_changed, link, calls, errors, client, ctl>>
           ELSE /\ \E e \in EdgeOutcomes :
                    Commit(run_command(
                        IF turn = "Unknown" THEN error(Mem, "timeout")
                        ELSE set_state(Mem, turn, e),
                        "broadcast"))
                /\ client' = started_send(client)
                /\ local' = [local EXCEPT !.start = NoTime, !.sleep = NoTime]
                /\ ctl' = "started"
    /\ UNCHANGED <<backend, LAST_STARTED, LAST_STOPPED, start_channel, next_check, wake, sd, rest>>

\* start(): one turn of the health loop; leaving the loop stores the state and
\* sends the start-done broadcast
StartLoop ==
    /\ ctl = "starting"
    /\ local.sleep = 0
    /\ LET turn == loop_turn(local.start, backend)
       IN  IF turn = "sleep"
           THEN /\ local' = [local EXCEPT !.sleep = StartCheckInterval]
                /\ UNCHANGED <<state, state_last_changed, link, calls, errors, client, ctl>>
           ELSE /\ \E e \in EdgeOutcomes :
                    Commit(run_command(
                        set_state(IF turn = "Unknown" THEN error(Mem, "timeout") ELSE Mem,
                                  turn, e),
                        "broadcast"))
                /\ client' = started_send(client)
                /\ local' = [local EXCEPT !.start = NoTime, !.sleep = NoTime]
                /\ ctl' = "started"
    /\ UNCHANGED <<backend, LAST_STARTED, LAST_STOPPED, start_channel, next_check, wake, sd, rest>>

\* handle(): start() has returned
HandleStarted ==
    /\ ctl = "started"
    /\ ctl' = "select"
    /\ local' = NoLocal
    /\ calls' = <<>>
    /\ errors' = {}
    /\ UNCHANGED <<backend, link, state, state_last_changed, LAST_STARTED, LAST_STOPPED,
                   start_channel, next_check, wake, client, sd, rest>>

\* ----------------------------------------------------- connection handler
\* the requests a connection can carry: where the request is routed (unreadable:
\* a request for a site whose head cannot be read to its end), whether the user
\* agent is a browser, and whether the body announced by Content-Length arrives
Requests == [route : {"unreadable", "api", "api_invalid", "no_host", "unknown_host",
                      "ignored", "site"},
             is_browser : BOOLEAN,
             body_ok : BOOLEAN]

ProxyModes == {"Always", "WhenReady", "Never"}

\* status lines with 503 for a request that names no known site
status_line_unavailable(result) ==
    CASE result = "InvalidUrl" -> "400 Bad Request"
      [] result = "ProxyFailed" -> "500 Internal Server Error"
      [] result \in {"MissingHost", "UnknownSite", "Ignored", "Unproxied"}
            -> "503 Service Unavailable"
      [] result = "ProxyTimeout" -> "504 Gateway Timeout"
      [] result = "ProxySuccess" -> "upstream"
      [] result = "ApiHandled" -> "api"

\* handle_connection: the status line written with each result; the API
\* handlers and the upstream write their own
status_line(result) ==
    CASE result = "InvalidUrl" -> "400 Bad Request"
      [] result \in {"MissingHost", "UnknownSite", "ProxyFailed"}
            -> "500 Internal Server Error"
      [] result \in {"Ignored", "Unproxied"} -> "503 Service Unavailable"
      [] result = "ProxyTimeout" -> "504 Gateway Timeout"
      [] result = "ProxySuccess" -> "upstream"
      [] result = "ApiHandled" -> "api"

\* handle_connection returns its ConnectionMetadata
Answered(result) ==
    [IdleClient EXCEPT !.pc = "done", !.result = result, !.status = status_line(result)]

\* the proxy modes a SiteConfig can hold
Configs == [proxy_mode : ProxyModes, browser_proxy_mode : ProxyModes]

\* the SiteConfig of the site: the defaults of its proxy modes
DefaultConfig == [proxy_mode |-> proxy_mode, browser_proxy_mode |-> browser_proxy_mode]

\* the choice of the mode with the two modes exchanged
proxy_mode_of_swapped(cfg, is_browser) ==
    IF is_browser THEN cfg.proxy_mode ELSE cfg.browser_proxy_mode

\* handle_connection: the proxy mode that applies to the request
proxy_mode_of(cfg, is_browser) ==
    IF is_browser THEN cfg.browser_proxy_mode ELSE cfg.proxy_mode

\* handle_connection: should_proxy, for a config, a request and the state
\* get_state() returns
should_proxy_in(cfg, is_browser, st) ==
    LET mode == proxy_mode_of(cfg, is_browser)
    IN  CASE mode = "Always" -> TRUE
          [] mode = "WhenReady" -> is_up(st)
          [] mode = "Never" -> FALSE

\* no proxy decision taken: done tells whether out is an answer
NoPol == [cfg |-> DefaultConfig, is_browser |-> FALSE, st |-> "none", done |-> FALSE,
          out |-> FALSE]

\* handle_connection: should_proxy of the site
should_proxy(is_browser) == should_proxy_in(DefaultConfig, is_browser, get_state(state))

\* what the site is doing when a wake-up is sent
WakeTag(via) ==
    IF get_state(state) = "Starting" THEN "starting"
    ELSE IF get_state(state) = "Down" /\ via = "page" THEN "down_page"
    ELSE "other"

\* a send that puts its wake-up in the place of the one held
trigger_start_replacing(via) ==
    /\ start_channel' = 1
    /\ wake' = WakeTag(via)

\* SiteController::trigger_start: try_send on the channel of capacity 1
trigger_start(via) ==
    IF start_channel = 0
    THEN /\ start_channel' = 1
         /\ wake' = WakeTag(via)
    ELSE UNCHANGED <<start_channel, wake>>

\* an early return that wakes the site
early_return_waking(c, result) ==
    /\ client' = [client EXCEPT ![c] = Answered(result)]
    /\ trigger_start("page")

\* handle_connection: the returns taken before the proxy decision
early_return(c, result) ==
    /\ client' = [client EXCEPT ![c] = Answered(result)]
    /\ UNCHANGED <<start_channel, wake>>

\* handle_connection: an expect() or unwrap() fails and the task unwinds
panic(c) ==
    /\ client' = [client EXCEPT ![c] = [IdleClient EXCEPT !.pc = "panicked"]]
    /\ UNCHANGED <<start_channel, wake>>

\* handle_connection up to the first wait: an early exit answers at once, the
\* wait page is followed by trigger_start, a proxied request reads its body,
\* begins its timeout and enters waiting_trigger_start
handle_connection(c, req) ==
    CASE req.route = "unreadable" -> panic(c)
      [] req.route = "api" -> early_return(c, "ApiHandled")
      [] req.route = "api_invalid" -> early_return(c, "InvalidUrl")
      [] req.route = "no_host" -> early_return(c, "MissingHost")
      [] req.route = "unknown_host" -> early_return(c, "UnknownSite")
      [] req.route = "ignored" -> early_return(c, "Ignored")
      [] OTHER ->
            IF should_proxy(req.is_browser)
            THEN IF req.body_ok
                 THEN /\ trigger_start("proxy")
                      /\ client' = [client EXCEPT ![c] =
                                [IdleClient EXCEPT !.pc = "waiting", !.t0 = 0,
                                    !.hot = is_up(get_state(state)) /\ backend]]
                 ELSE panic(c)
            ELSE /\ trigger_start("page")
                 /\ client' = [client EXCEPT ![c] = Answered("Unproxied")]

\* a connection is accepted and its task runs handle_connection
Accept(c) ==
    /\ client[c].pc = "idle"
    /\ \E req \in Requests : handle_connection(c, req)
    /\ UNCHANGED <<backend, link, state, state_last_changed, LAST_STARTED, LAST_STOPPED,
                   next_check, ctl, local, calls, errors, sd, rest>>

\* waiting_trigger_start: started_receiver.recv() returns
StartedRecv(c) ==
    /\ client[c].pc = "waiting"
    /\ client[c].notified
    /\ client' = [client EXCEPT ![c] = [@ EXCEPT !.pc = "proxy", !.notified = FALSE]]
    /\ UNCHANGED <<backend, link, state, state_last_changed, LAST_STARTED, LAST_STOPPED,
                   start_channel, next_check, ctl, local, calls, errors, wake, sd, rest>>

\* a failed attempt that ends the request
try_proxy_result_failing(up) == IF up THEN "ProxySuccess" ELSE "ProxyFailed"

\* handle_connection: what one turn of the retry loop does with the answer of
\* try_proxy (up: the upstream responds)
try_proxy_result(up) == IF up THEN "ProxySuccess" ELSE "sleep"

\* handle_connection: one try_proxy of the retry loop
try_proxy(c) ==
    /\ client[c].pc = "proxy"
    /\ LET r == try_proxy_result(backend)
       IN  client' = [client EXCEPT ![c] =
                        IF r = "sleep" THEN [@ EXCEPT !.pc = "retry"] ELSE Answered(r)]
    /\ UNCHANGED <<backend, link, state, state_last_changed, LAST_STARTED, LAST_STOPPED,
                   start_channel, next_check, ctl, local, calls, errors, wake, sd, rest>>

\* handle_connection: the sleep of proxy_check_interval_ms is over
ProxyRetry(c) ==
    /\ client[c].pc = "retry"
    /\ client' = [client EXCEPT ![c] = [@ EXCEPT !.pc = "proxy"]]
    /\ UNCHANGED <<backend, link, state, state_last_changed, LAST_STARTED, LAST_STOPPED,
                   start_channel, next_check, ctl, local, calls, errors, wake, sd, rest>>

\* a timeout that covers the retry loop only
ProxyDeadline_loop_only(c) ==
    /\ client[c].pc \in {"proxy", "retry"}
    /\ client[c].t0 >= ProxyTimeout
    /\ client' = [client EXCEPT ![c] =
                    [Answered("ProxyTimeout") EXCEPT !.hot = client[c].hot]]
    /\ UNCHANGED <<backend, link, state, state_last_changed, LAST_STARTED, LAST_STOPPED,
                   start_channel, next_check, ctl, local, calls, errors, wake, sd, rest>>

\* handle_connection: the timeout elapses first
ProxyDeadline(c) ==
    /\ client[c].pc \in {"waiting", "proxy", "retry"}
    /\ client[c].t0 >= ProxyTimeout
    /\ client' = [client EXCEPT ![c] =
                    [Answered("ProxyTimeout") EXCEPT !.hot = client[c].hot]]
    /\ UNCHANGED <<backend, link, state, state_last_changed, LAST_STARTED, LAST_STOPPED,
                   start_channel, next_check, ctl, local, calls, errors, wake, sd, rest>>

\* setup_server: the task ends; the ConnectionMetadata handle_connection
\* returned is put in the connections table unless it is ApiHandled
ConnectionEnd(c) ==
    /\ client[c].pc \in {"done", "panicked"}
    /\ client' = [client EXCEPT ![c] =
                    [IdleClient EXCEPT !.put = (client[c].pc = "done"
                                                /\ client[c].result # "ApiHandled")]]
    /\ UNCHANGED <<backend, link, state, state_last_changed, LAST_STARTED, LAST_STOPPED,
                   start_channel, next_check, ctl, local, calls, errors, wake, sd, rest>>

\* ----------------------------------------------------------- environment
\* one second passes
Tick ==
    /\ state_last_changed' = Min(state_last_changed + 1000, Cap * 1000)
    /\ LAST_STARTED' = Older(LAST_STARTED, Cap)
    /\ LAST_STOPPED' = Older(LAST_STOPPED, Cap)
    /\ next_check' = Left(next_check)
    /\ local' = [local EXCEPT !.ret = Left(@),
                              !.start = Older(@, StartTimeout + 1),
                              !.sleep = Left(@)]
    /\ client' = [c \in Clients |-> [client[c] EXCEPT !.t0 = Older(@, ProxyTimeout + 1)]]
    /\ UNCHANGED <<backend, link, state, start_channel, ctl, calls, errors, wake, sd, rest>>

\* the upstream begins to answer on its port
BackendUp ==
    /\ ~backend
    /\ backend' = TRUE
    /\ UNCHANGED <<link, state, state_last_changed, LAST_STARTED, LAST_STOPPED,
                   start_channel, next_check, ctl, local, calls, errors, wake, client, sd, rest>>

\* the upstream stops answering
BackendDown ==
    /\ backend
    /\ backend' = FALSE
    /\ client' = [c \in Clients |-> [client[c] EXCEPT !.hot = FALSE]]
    /\ UNCHANGED <<link, state, state_last_changed, LAST_STARTED, LAST_STOPPED,
                   start_channel, next_check, ctl, local, calls, errors, wake, sd, rest>>

\* ------------------------------------------------------------------ spec
Boot ==
    /\ backend \in BOOLEAN
    /\ link \in {"available", "hibernating"}
    /\ state = 0
    /\ state_last_changed = Cap * 1000
    /\ LAST_STARTED = NoTime
    /\ LAST_STOPPED = NoTime
    /\ start_channel = 0
    /\ next_check = 0
    /\ ctl = "select"
    /\ local = NoLocal
    /\ calls = <<>>
    /\ errors = {}
    /\ wake = "none"
    /\ client = [c \in Clients |-> IdleClient]

\* Database::open on a new database_path: no row, no transaction
EmptyStore ==
    /\ states = {}
    /\ connections = [at \in 0..MaxStamp |-> <<>>]
    /\ utc = 0
    /\ wtxn = 0
    /\ writer = [w \in Writers |-> IdleWriter]

Init == Boot /\ sd = NoSd /\ EmptyStore /\ pg = NoPg /\ pol = NoPol /\ query = NoQuery

Controller == HandleCheck \/ HandleChecked \/ HandleStart \/ StartLoop \/ HandleStarted

Dispatcher(c) ==
    \/ Accept(c) \/ StartedRecv(c) \/ try_proxy(c) \/ ProxyRetry(c) \/ ProxyDeadline(c)
    \/ ConnectionEnd(c)

Environment == Tick \/ BackendUp \/ BackendDown

\* one connection at a time, the whole controller
Next == Controller \/ (\E c \in OneClient : Dispatcher(c)) \/ Environment

Spec == Init /\ [][Next]_vars

\* one connection on the wake-up path: the receive branch of the select,
\* start() and the connection task
NextProxy ==
    \/ HandleStart \/ StartLoop \/ HandleStarted
    \/ (\E c \in OneClient : Dispatcher(c))
    \/ Environment

\* the runtime keeps its timers going: time passes, and a timeout that has
\* elapsed is delivered to its task
SpecTimers ==
    /\ Init /\ [][NextProxy]_vars
    /\ WF_vars(Tick) /\ \A c \in OneClient : WF_vars(ProxyDeadline(c))

\* concurrent connections on the wake-up path: the receive branch of the
\* select and start()
NextWaiters ==
    \/ HandleStart \/ StartLoop \/ HandleStarted
    \/ (\E c \in Clients : Dispatcher(c))
    \/ Environment

SpecWaiters == Init /\ [][NextWaiters]_vars

\* ----------------------------------------- should_shutdown on its inputs
\* the inputs should_shutdown can meet at an instant t <= MaxNow: check() calls
\* it from the select, where the state is not Starting; no recorded instant is
\* in the future; a recorded stop is followed by a state change unless the site
\* was Down already
ShutdownInputs ==
    {i \in [t : 0..MaxNow,
            inp : LogInputs(MaxNow),
            st : SiteStates \ {"Starting"},
            last_changed : 0..MaxNow,
            last_started : {NoTime} \cup (0..MaxNow),
            last_stopped : {NoTime} \cup (0..MaxNow),
            out : {NoSd.out}] :
        /\ i.inp.ts <= i.t
        /\ i.last_changed <= i.t
        /\ i.last_started <= i.t
        /\ i.last_stopped <= i.t
        /\ (i.last_stopped # NoTime /\ i.st # "Down") => i.last_changed >= i.last_stopped}

InitShutdown ==
    Boot /\ sd \in ShutdownInputs /\ EmptyStore /\ pg = NoPg /\ pol = NoPol /\ query = NoQuery

\* should_shutdown is applied to the input
ApplyShouldShutdown ==
    /\ sd.out.kind = "none"
    /\ sd' = [sd EXCEPT !.out = should_shutdown(sd.t, sd.inp, sd.st, sd.last_changed,
                                                sd.last_started, sd.last_stopped)]
    /\ UNCHANGED <<backend, link, state, state_last_changed, LAST_STARTED, LAST_STOPPED,
                   start_channel, next_check, ctl, local, calls, errors, wake, client, rest>>

SpecShutdown == InitShutdown /\ [][ApplyShouldShutdown]_vars

\* ------------------------------------------------------ the states table
\* the calls made on the store: update_state writes whatever the last state is
\* the states written: a write of Unknown is compared like one of Down
StoreStates == SiteStates \ {"Unknown"}

StoreCalls ==
    {call \in [op : {"update_state", "try_update_state"}, name : Services,
               new_state : StoreStates, exclude_states : Excludes] :
        call.op = "update_state" => call.exclude_states = {}}

\* an environment that lets two write transactions run at once
write_txn_shared(w) == TRUE

\* Env::write_txn: LMDB holds one write transaction at a time, the caller
\* waits for it
write_txn(w) == wtxn = 0

\* update_state / try_update_state: the write transaction begins
TxnBegin(w) ==
    /\ writer[w].pc = "idle"
    /\ utc < MaxUtc
    /\ write_txn(w)
    /\ wtxn' = w
    /\ \E call \in StoreCalls :
            writer' = [writer EXCEPT ![w] =
                        [pc |-> IF call.op = "update_state" THEN "put" ELSE "read",
                         call |-> call]]
    /\ UNCHANGED <<site, sd, pg, pol, query, states, connections, utc>>

\* try_update_state: the current state is read inside the transaction; on an
\* excluded state the call returns false and the transaction is dropped
TxnRead(w) ==
    /\ writer[w].pc = "read"
    /\ LET current == last_row(states, writer[w].call.name)
       IN  IF current # NoRow /\ current.value \in writer[w].call.exclude_states
           THEN /\ writer' = [writer EXCEPT ![w] = [pc |-> "returned", ret |-> FALSE]]
                /\ wtxn' = 0
           ELSE /\ writer' = [writer EXCEPT ![w] = [@ EXCEPT !.pc = "put"]]
                /\ UNCHANGED wtxn
    /\ UNCHANGED <<site, sd, pg, pol, query, states, connections, utc>>

\* Utc::now(): the wall clock, read again at every call; a reading is the
\* last one or a later one
Utc_now == {utc, utc + 1}

\* update_state / try_update_state: the row is put under the key (name,
\* Utc::now()) and the transaction commits
TxnPut(w) ==
    /\ writer[w].pc = "put"
    /\ \E now \in Utc_now :
            /\ states' = put(states, [service |-> writer[w].call.name, timestamp |-> now],
                             writer[w].call.new_state)
            /\ utc' = now
    /\ wtxn' = 0
    /\ writer' = [writer EXCEPT ![w] = [pc |-> "returned", ret |-> TRUE]]
    /\ UNCHANGED <<site, sd, pg, pol, query, connections>>

\* the caller goes on
WriterReturn(w) ==
    /\ writer[w].pc = "returned"
    /\ writer' = [writer EXCEPT ![w] = IdleWriter]
    /\ UNCHANGED <<site, sd, pg, pol, query, states, connections, utc, wtxn>>

NextStore == \E w \in Writers : TxnBegin(w) \/ TxnRead(w) \/ TxnPut(w) \/ WriterReturn(w)

\* the site before any task has run, its upstream answering
Quiet == Boot /\ backend /\ link = "available"

\* the store of a new database
InitStore == Init /\ Quiet

SpecStore == InitStore /\ [][NextStore]_vars

\* ------------------------------------------- the state cell, both crates
\* the two controllers of the repository: src/src and src/backend/src
Controllers == {"src", "backend"}

\* SiteController::get_state of either controller; the one of src/src decodes
\* three values
get_state_in(controller, u) ==
    IF controller = "backend" THEN get_state(u)
    ELSE CASE u = 0 -> "Down"
           [] u = 1 -> "Up"
           [] u = 2 -> "Starting"
           [] OTHER -> "unreachable"

\* SiteController::set_state of either controller, as to the state cell: the
\* old state is decoded first, an equal state returns early, else `state as
\* usize` is stored
set_state_in(controller, u, s) ==
    IF get_state_in(controller, u) = "unreachable" THEN [kind |-> "panic", state |-> u]
    ELSE IF controller = "backend"
    THEN [kind |-> "Ok", state |-> set_state([Mem EXCEPT !.state = u], s, "ok").state]
    ELSE IF get_state_in(controller, u) = s THEN [kind |-> "Ok", state |-> u]
    ELSE [kind |-> "Ok", state |-> SiteState(s)]

\* a controller after new(): the cell holds 0 and nothing was set
SetStateInputs ==
    [op : {"set_state"}, controller : Controllers, state : {0}, sets : {<<>>},
     out : {"none"}]

InitState ==
    /\ Quiet /\ sd = NoSd /\ pg = NoPg /\ pol = NoPol /\ EmptyStore
    /\ query \in SetStateInputs

\* set_state(s) and then get_state(); a panic ends the task
ApplySetState ==
    /\ query.op = "set_state"
    /\ query.out # "unreachable"
    /\ Len(query.sets) < MaxSets
    /\ \E s \in SiteStates :
        LET set == set_state_in(query.controller, query.state, s)
        IN  query' = [query EXCEPT
                        !.state = set.state,
                        !.sets = Append(@, s),
                        !.out = IF set.kind = "panic" THEN "unreachable"
                                ELSE get_state_in(query.controller, set.state)]
    /\ UNCHANGED <<site, sd, store, pg, pol>>

SpecState == InitState /\ [][ApplySetState]_vars

\* ------------------------------------------- the cooldown, called by tasks
\* a connection task outside try_mark_started: its last answer, if any
IdleCaller == [pc |-> "idle", now |-> NoTime, last_started |-> NoTime, ret |-> "none"]

\* the cooldown of a site never started: the clock, the site's entry of
\* LAST_STARTED, the owner of its mutex, the callers, and how many calls read
\* each instant and returned true
NoMarks ==
    [op |-> "try_mark_started", clock |-> 0, LAST_STARTED |-> NoTime, owner |-> 0,
     caller |-> [c \in Clients |-> IdleCaller],
     granted |-> [t \in 0..MaxClock |-> 0]]

\* a mutex that never makes its caller wait
Mutex_lock_shared(owner) == TRUE

\* tokio Mutex::lock: granted when no task holds the guard
Mutex_lock(owner) == owner = 0

\* try_mark_started: let now = Utc::now().timestamp()
MarkNow(c) ==
    /\ query.op = "try_mark_started"
    /\ query.caller[c].pc = "idle"
    /\ query' = [query EXCEPT !.caller[c] = [IdleCaller EXCEPT !.pc = "now",
                                                              !.now = query.clock]]
    /\ UNCHANGED <<site, sd, store, pg, pol>>

\* try_mark_started: LAST_STARTED.lock().await, then the entry is read
MarkLock(c) ==
    /\ query.op = "try_mark_started"
    /\ query.caller[c].pc = "now"
    /\ Mutex_lock(query.owner)
    /\ query' = [query EXCEPT !.owner = c,
                              !.caller[c].pc = "locked",
                              !.caller[c].last_started = query.LAST_STARTED]
    /\ UNCHANGED <<site, sd, store, pg, pol>>

\* try_mark_started: under cooldown the call returns false, else now is
\* inserted and the call returns true; the guard is dropped
MarkDecide(c) ==
    /\ query.op = "try_mark_started"
    /\ query.caller[c].pc = "locked"
    /\ LET ret == try_mark_started(query.caller[c].now, query.caller[c].last_started)
       IN  query' = [query EXCEPT
                        !.owner = 0,
                        !.LAST_STARTED = IF ret THEN query.caller[c].now ELSE @,
                        !.granted[query.caller[c].now] = IF ret THEN Min(@ + 1, 2) ELSE @,
                        !.caller[c] = [IdleCaller EXCEPT !.ret = IF ret THEN "true" ELSE "false"]]
    /\ UNCHANGED <<site, sd, store, pg, pol>>

\* one second passes on the wall clock
MarkTick ==
    /\ query.op = "try_mark_started"
    /\ query.clock < MaxClock
    /\ query' = [query EXCEPT !.clock = @ + 1]
    /\ UNCHANGED <<site, sd, store, pg, pol>>

NextMark == MarkTick \/ \E c \in Clients : MarkNow(c) \/ MarkLock(c) \/ MarkDecide(c)

InitMark ==
    /\ Quiet /\ sd = NoSd /\ pg = NoPg /\ pol = NoPol /\ EmptyStore
    /\ query = NoMarks

SpecMark == InitMark /\ [][NextMark]_vars

\* ------------------------------------------------ records of connections
\* the seconds at which the connections of one burst are accepted
PutKeys == 0..1

\* the records put so far, by their keys; record k carries url k
NoPuts == [op |-> "put_connection_metadata", sent |-> <<>>]

\* put_connection_metadata: a connection task has its record and the second
\* of its accept, and the write transaction begins
PutBegin(w) ==
    /\ query.op = "put_connection_metadata"
    /\ writer[w].pc = "idle"
    /\ Len(query.sent) < MaxPuts
    /\ write_txn(w)
    /\ wtxn' = w
    /\ \E at \in PutKeys :
            /\ writer' = [writer EXCEPT ![w] =
                            [pc |-> "get", at |-> at,
                             metadata |-> [service |-> <<SiteName>>,
                                           url |-> Len(query.sent) + 1]]]
            /\ query' = [query EXCEPT !.sent = Append(@, at)]
    /\ UNCHANGED <<site, sd, pg, pol, states, connections, utc>>

\* put_connection_metadata: the list of the key is read in the transaction
PutGet(w) ==
    /\ writer[w].pc = "get"
    /\ writer' = [writer EXCEPT ![w] =
                    [pc |-> "push", at |-> @.at, metadata |-> @.metadata,
                     list |-> connections[@.at]]]
    /\ UNCHANGED <<site, sd, pg, pol, query, states, connections, utc, wtxn>>

\* put_connection_metadata: the record is pushed, the list is put back under
\* the key and the transaction commits
PutCommit(w) ==
    /\ writer[w].pc = "push"
    /\ connections' = [connections EXCEPT ![writer[w].at] =
                            Append(writer[w].list, writer[w].metadata)]
    /\ wtxn' = 0
    /\ writer' = [writer EXCEPT ![w] = [pc |-> "returned", ret |-> TRUE]]
    /\ UNCHANGED <<site, sd, pg, pol, query, states, utc>>

NextPut == \E w \in Writers : PutBegin(w) \/ PutGet(w) \/ PutCommit(w) \/ WriterReturn(w)

InitPut ==
    /\ Quiet /\ sd = NoSd /\ pg = NoPg /\ pol = NoPol /\ EmptyStore
    /\ query = NoPuts

SpecPut == InitPut /\ [][NextPut]_vars

\* ------------------------------------------ the proxy decision on its inputs
\* the decision is taken for any config, any request and any state of the site
PolicyInputs ==
    [cfg : Configs, is_browser : BOOLEAN, st : SiteStates, done : {FALSE}, out : {FALSE}]

InitPolicy ==
    Boot /\ sd = NoSd /\ EmptyStore /\ pg = NoPg /\ query = NoQuery /\ pol \in PolicyInputs

\* should_proxy is computed for the input
ApplyShouldProxy ==
    /\ ~pol.done
    /\ pol' = [pol EXCEPT !.done = TRUE,
                          !.out = should_proxy_in(pol.cfg, pol.is_browser, pol.st)]
    /\ UNCHANGED <<site, sd, store, pg, query>>

SpecPolicy == InitPolicy /\ [][ApplyShouldProxy]_vars

\* --------------------------------------------- get_progress on its inputs
\* the inputs get_progress can meet at an instant of at most MaxNow seconds:
\* any eta_sample_size, any state, begun at an instant not in the future, and
\* any answer of the duration estimate
ProgressInputs ==
    {i \in [now_ms : {1000 * t : t \in 0..MaxNow},
            eta_sample_size : 0..MaxSamples,
            st : SiteStates,
            last_changed_ms : {1000 * t : t \in 0..MaxNow},
            estimate : {NoTime} \cup {1000 * t : t \in 1..StartTimeout},
            out : {NoPg.out}] :
        i.last_changed_ms <= i.now_ms}

InitProgress ==
    Boot /\ sd = NoSd /\ EmptyStore /\ pol = NoPol /\ query = NoQuery /\ pg \in ProgressInputs

\* get_progress is applied to the input
ApplyGetProgress ==
    /\ pg.out.kind = "none"
    /\ pg' = [pg EXCEPT !.out = get_progress(pg.now_ms, pg.eta_sample_size, pg.st,
                                            pg.last_changed_ms, pg.estimate)]
    /\ UNCHANGED <<site, sd, store, pol, query>>

SpecProgress == InitProgress /\ [][ApplyGetProgress]_vars

\* ------------------------------------------------ reads of the state history
\* the rows of a range from the greatest key down: rev_range
RECURSIVE rev_iter(_)
rev_iter(range) ==
    IF range = {} THEN <<>>
    ELSE LET r == CHOOSE r \in range : \A q \in range : KeyLeq(q.key, r.key)
         IN  <<r>> \o rev_iter(range \ {r})

\* states.rev_range(min..=max) over the keys of one service
rev_range(table, name) ==
    LET min == bytes_encode([service |-> name, timestamp |-> 0])
        max == bytes_encode([service |-> name, timestamp |-> i64_MAX])
    IN  rev_iter({r \in table : KeyLeq(min, r.key) /\ KeyLeq(r.key, max)})

\* the loop of get_start_duration_estimate from row i on: an Up row is kept
\* as the end of a start, a Starting row below it gives a duration, any other
\* row forgets the Up
RECURSIVE start_durations(_, _, _, _)
start_durations(rows, i, values, last_started_time) ==
    IF i > Len(rows) THEN values
    ELSE LET at == bytes_decode(rows[i].key).timestamp
         IN  CASE rows[i].value = "Up" -> start_durations(rows, i + 1, values, at)
               [] rows[i].value = "Starting" ->
                    start_durations(rows, i + 1,
                        IF last_started_time # NoTime
                        THEN Append(values, last_started_time - at) ELSE values,
                        NoTime)
               [] OTHER -> start_durations(rows, i + 1, values, NoTime)

\* values[idx] of a Vec: an index past the end panics
index(values, idx) ==
    IF idx < Len(values) THEN [kind |-> "Ok", value |-> values[idx + 1]]
    ELSE [kind |-> "panic", value |-> NoTime]

\* Database::get_start_duration_estimate
get_start_duration_estimate(table, name, percentile) ==
    LET values == start_durations(rev_range(table, name), 1, <<>>, NoTime)
    IN  IF values = <<>> THEN [kind |-> "Err", value |-> NoTime]
        ELSE index(values, (Len(values) * percentile) \div 100)

\* config.eta_percentile: "Should be between 0 and 100"
Percentiles == {0, 50, 95, 100}

\* a history of the site: at most one row per instant
Histories ==
    {{[key |-> bytes_encode([service |-> SiteName, timestamp |-> t]), value |-> f[t]] :
            t \in {u \in 0..MaxStamp : f[u] # "none"}} :
        f \in [0..MaxStamp -> SiteStates \cup {"none"}]}

\* a store that holds a history, read after its last row; no transaction open
StoreOf(table) ==
    /\ states = table
    /\ connections = [at \in 0..MaxStamp |-> <<>>]
    /\ utc = MaxStamp + 1
    /\ wtxn = 0
    /\ writer = [w \in Writers |-> IdleWriter]

NoAnswer == [kind |-> "none", value |-> NoTime]

EstimateInputs ==
    [op : {"get_start_duration_estimate"}, name : {SiteName},
     percentile : Percentiles, out : {NoAnswer}]

InitEstimate ==
    /\ Quiet /\ sd = NoSd /\ pg = NoPg /\ pol = NoPol
    /\ \E table \in Histories : StoreOf(table)
    /\ query \in EstimateInputs

\* the estimate is asked for
ApplyGetStartDurationEstimate ==
    /\ query.op = "get_start_duration_estimate"
    /\ query.out = NoAnswer
    /\ query' = [query EXCEPT
                    !.out = get_start_duration_estimate(states, query.name, query.percentile)]
    /\ UNCHANGED <<site, sd, store, pg, pol>>

SpecEstimate == InitEstimate /\ [][ApplyGetStartDurationEstimate]_vars

\* ------------------------------------------- reads of the connection history
\* Option<T>: None, Some(x)
Some(x) == <<x>>

\* ConnectionMetadata, by its service: the site, another site, no site
Metadatas ==
    {[service |-> Some(SiteName)], [service |-> Some(<<1, 2>>)], [service |-> <<>>]}

\* the list stored under one instant (seconds): connections of the same second
\* share a key
Lists ==
    {<<>>,
     <<[service |-> Some(SiteName)]>>,
     <<[service |-> <<>>], [service |-> Some(SiteName)]>>,
     <<[service |-> Some(SiteName)], [service |-> Some(<<1, 2>>)]>>}

\* the connections table: the list of every instant, <<>> for no key
Connections == [0..MaxStamp -> Lists]

\* the entries of key at that pass the service filter, in the order of the list
RECURSIVE filtered(_, _, _, _)
filtered(metadatas, i, at, service) ==
    IF i > Len(metadatas) THEN <<>>
    ELSE IF service # <<>> /\ metadatas[i].service # service
         THEN filtered(metadatas, i + 1, at, service)
         ELSE <<[at |-> at, metadata |-> metadatas[i]]>>
                \o filtered(metadatas, i + 1, at, service)

\* the keys of the table within lo..hi (hi excluded)
keys(table, lo, hi) == {at \in DOMAIN table : table[at] # <<>> /\ lo <= at /\ at < hi}

\* the while loop over rev_range(0..before): whole lists are pushed, the loop
\* ends after the list that brings the results to min_results
RECURSIVE backwards(_, _, _, _, _)
backwards(table, range, service, min_results, results) ==
    IF range = {} THEN results
    ELSE LET at == CHOOSE a \in range : \A b \in range : b <= a
             pushed == results \o filtered(table[at], 1, at, service)
         IN  IF Len(pushed) >= min_results THEN pushed
             ELSE backwards(table, range \ {at}, service, min_results, pushed)

\* the while loop over range((after + 1)..u64::MAX)
RECURSIVE forwards(_, _, _, _, _)
forwards(table, range, service, min_results, results) ==
    IF range = {} THEN results
    ELSE LET at == CHOOSE a \in range : \A b \in range : a <= b
             pushed == results \o filtered(table[at], 1, at, service)
         IN  IF Len(pushed) >= min_results THEN pushed
             ELSE forwards(table, range \ {at}, service, min_results, pushed)

\* Vec::reverse
reverse(seq) == [i \in 1..Len(seq) |-> seq[Len(seq) + 1 - i]]

\* after + 1 on a u64: a debug build panics on overflow, a release build wraps
Builds == {"debug", "release"}

\* Database::get_connection_history
get_connection_history(table, service, before, after, min_results, build) ==
    CASE before # <<>> /\ after = <<>> ->
            [kind |-> "Ok",
             value |-> backwards(table, keys(table, 0, before[1]), service, min_results, <<>>)]
      [] before = <<>> /\ after # <<>> ->
            IF after[1] = u64_MAX /\ build = "debug"
            THEN [kind |-> "panic", value |-> <<>>]
            ELSE [kind |-> "Ok",
                  value |-> reverse(forwards(table,
                                keys(table, (after[1] + 1) % (u64_MAX + 1), u64_MAX),
                                service, min_results, <<>>))]
      [] OTHER -> [kind |-> "Err", value |-> <<>>]

\* an instant given by a caller: any second up to just past the history, or
\* the greatest u64
Instants == {<<>>} \cup {Some(t) : t \in 0..(MaxStamp + 1)} \cup {Some(u64_MAX)}

HistoryInputs ==
    [op : {"get_connection_history"}, table : Connections,
     service : {<<>>, Some(SiteName)}, before : Instants, after : Instants,
     min_results : 0..MaxResults, build : Builds, out : {NoAnswer}]

InitHistory ==
    /\ Quiet /\ sd = NoSd /\ pg = NoPg /\ pol = NoPol /\ EmptyStore
    /\ query \in HistoryInputs
    /\ query.before = <<>> \/ query.after = <<>> \/ query.table = [t \in 0..MaxStamp |-> <<>>]

\* the history is asked for
ApplyGetConnectionHistory ==
    /\ query.op = "get_connection_history"
    /\ query.out = NoAnswer
    /\ query' = [query EXCEPT
                    !.out = get_connection_history(query.table, query.service, query.before,
                                                   query.after, query.min_results, query.build)]
    /\ UNCHANGED <<site, sd, store, pg, pol>>

SpecHistory == InitHistory /\ [][ApplyGetConnectionHistory]_vars

\* ---------------------------------------------------- the inspection API
\* the rows of a service with lo <= timestamp, below hi
rows_between(table, name, lo, hi) ==
    LET min == bytes_encode([service |-> name, timestamp |-> lo])
        max == bytes_encode([service |-> name, timestamp |-> hi])
    IN  {r \in table : KeyLeq(min, r.key) /\ KeyLeq(r.key, max) /\ r.key # max}

\* the while loops of get_state_history from row i on: rows not after `after`
\* are skipped, a row is pushed, a change of state is counted, and the loop
\* breaks at min_results changes
RECURSIVE raw_results(_, _, _, _, _, _, _)
raw_results(rows, i, after, min_results, raw, deduplicated_count, last_state) ==
    IF i > Len(rows) THEN raw
    ELSE LET timestamp == bytes_decode(rows[i].key).timestamp
             count == IF last_state = rows[i].value THEN deduplicated_count
                      ELSE deduplicated_count + 1
         IN  IF timestamp <= after
             THEN raw_results(rows, i + 1, after, min_results, raw,
                              deduplicated_count, last_state)
             ELSE IF count >= min_results
                  THEN Append(raw, [timestamp |-> timestamp, state |-> rows[i].value])
                  ELSE raw_results(rows, i + 1, after, min_results,
                            Append(raw, [timestamp |-> timestamp, state |-> rows[i].value]),
                            count, rows[i].value)

\* get_state_history: consecutive rows of one state become one range, the
\* last range ends now
RECURSIVE ranges_of(_, _, _, _, _)
ranges_of(raw, i, current_range, ranges, now) ==
    IF i > Len(raw)
    THEN IF current_range = <<>> THEN ranges
         ELSE Append(ranges, [start_time |-> current_range[1].timestamp, end_time |-> now,
                              state |-> current_range[1].state])
    ELSE IF current_range = <<>> THEN ranges_of(raw, i + 1, Some(raw[i]), ranges, now)
         ELSE IF current_range[1].state = raw[i].state
              THEN ranges_of(raw, i + 1, current_range, ranges, now)
              ELSE ranges_of(raw, i + 1, Some(raw[i]),
                        Append(ranges, [start_time |-> current_range[1].timestamp,
                                        end_time |-> raw[i].timestamp,
                                        state |-> current_range[1].state]),
                        now)

\* Database::get_state_history
get_state_history(table, service, before, after, min_results, now) ==
    CASE before # <<>> /\ after = <<>> ->
            [kind |-> "Ok",
             value |-> ranges_of(
                reverse(raw_results(rev_iter(rows_between(table, service, 0, before[1])),
                                    1, NoTime, min_results, <<>>, 0, "none")),
                1, <<>>, <<>>, now)]
      [] before = <<>> /\ after # <<>> ->
            [kind |-> "Ok",
             value |-> ranges_of(
                raw_results(reverse(rev_iter(rows_between(table, service, after[1], i64_MAX))),
                            1, after[1], min_results, <<>>, 0, "none"),
                1, <<>>, <<>>, now)]
      [] OTHER -> [kind |-> "Err", value |-> <<>>]

\* Option::or
or(option, other) == IF option # <<>> THEN option ELSE other

\* send_json_response, send_error_response
Response(status, body) == [kind |-> status, value |-> body]

\* handle_history_request
handle_history_request(table, service, before, after, min_results, build) ==
    LET history == get_connection_history(table, service, or(before, Some(u64_MAX)),
                                          after, min_results, build)
    IN  CASE history.kind = "Err" -> Response("500", <<>>)
          [] history.kind = "panic" -> history
          [] OTHER -> Response("200", history.value)

\* the names of SITE_CONTROLLERS
Sites == <<SiteName>>

\* all_ranges.sort_by(|a, b| b.0.cmp(&a.0)): by start_time, newest first
RECURSIVE sort_by_start(_)
sort_by_start(ranges) ==
    IF ranges = <<>> THEN <<>>
    ELSE LET i == CHOOSE i \in 1..Len(ranges) :
                    /\ \A j \in 1..Len(ranges) : ranges[j].start_time <= ranges[i].start_time
                    /\ \A j \in 1..(i - 1) : ranges[j].start_time < ranges[i].start_time
         IN  <<ranges[i]>>
                \o sort_by_start(SubSeq(ranges, 1, i - 1) \o SubSeq(ranges, i + 1, Len(ranges)))

\* the ranges of every site, an error giving none
RECURSIVE all_ranges(_, _, _, _, _, _)
all_ranges(i, table, before, after, min_results, now) ==
    IF i > Len(Sites) THEN <<>>
    ELSE get_state_history(table, Sites[i], before, after, min_results, now).value
            \o all_ranges(i + 1, table, before, after, min_results, now)

\* the state of a StateHistoryEntry
state_str(st) ==
    CASE st = "Unknown" -> "unknown"
      [] st = "Down" -> "down"
      [] st = "Up" -> "up"
      [] st = "Starting" -> "starting"

\* the conversion of the ranges to StateHistoryEntry
entries_of(ranges, service) ==
    [i \in 1..Len(ranges) |->
        [start_time |-> ranges[i].start_time, end_time |-> ranges[i].end_time,
         service |-> IF service # <<>> THEN service[1] ELSE "unknown",
         state |-> state_str(ranges[i].state)]]

\* handle_state_history_request
handle_state_history_request(table, service, before, after, min_results, now) ==
    IF service # <<>>
    THEN LET ranges == get_state_history(table, service[1], or(before, Some(i64_MAX)),
                                         after, min_results, now)
         IN  IF ranges.kind = "Err" THEN Response("500", <<>>)
             ELSE Response("200", entries_of(ranges.value, service))
    ELSE LET sorted == sort_by_start(all_ranges(1, table, or(before, Some(i64_MAX)), after,
                                                min_results, now))
         IN  Response("200",
                entries_of(SubSeq(sorted, 1, Min(min_results, Len(sorted))), service))

\* the query parameters before and after
RequestInstants == {<<>>} \cup {Some(t) : t \in 0..MaxStamp}

\* a history of the site as the controller writes it
WrittenHistories == {table \in Histories : \A r \in table : r.value \in StoreStates}

HistoryRequests ==
    [op : {"handle_history_request"}, table : Connections,
     service : {<<>>, Some(SiteName)}, before : RequestInstants, after : RequestInstants,
     min_results : 0..MaxResults, build : Builds, out : {NoAnswer}]

StateHistoryRequests ==
    [op : {"handle_state_history_request"},
     service : {<<>>, Some(SiteName), Some(<<1, 2>>)}, before : RequestInstants,
     after : RequestInstants, min_results : 0..MaxResults, out : {NoAnswer}]

InitApi ==
    /\ Quiet /\ sd = NoSd /\ pg = NoPg /\ pol = NoPol
    /\ \/ query \in HistoryRequests /\ EmptyStore
       \/ query \in StateHistoryRequests /\ \E table \in WrittenHistories : StoreOf(table)

\* GET /hibernator-api/history
ApplyHandleHistoryRequest ==
    /\ query.op = "handle_history_request"
    /\ query.out = NoAnswer
    /\ query' = [query EXCEPT
                    !.out = handle_history_request(query.table, query.service, query.before,
                                                   query.after, query.min_results, query.build)]
    /\ UNCHANGED <<site, sd, store, pg, pol>>

\* GET /hibernator-api/state-history
ApplyHandleStateHistoryRequest ==
    /\ query.op = "handle_state_history_request"
    /\ query.out = NoAnswer
    /\ query' = [query EXCEPT
                    !.out = handle_state_history_request(states, query.service, query.before,
                                                         query.after, query.min_results, utc)]
    /\ UNCHANGED <<site, sd, store, pg, pol>>

SpecApi == InitApi /\ [][ApplyHandleHistoryRequest \/ ApplyHandleStateHistoryRequest]_vars

\* the calls of get_state_history with one of before and after
StateHistoryInputs ==
    {q \in [op : {"get_state_history"}, before : RequestInstants, after : RequestInstants,
            min_results : 0..MaxResults, out : {NoAnswer}] :
        (q.before = <<>>) # (q.after = <<>>)}

InitRanges ==
    /\ Quiet /\ sd = NoSd /\ pg = NoPg /\ pol = NoPol
    /\ query \in StateHistoryInputs
    /\ \E table \in WrittenHistories : StoreOf(table)

\* a call of Database::get_state_history
ApplyGetStateHistory ==
    /\ query.op = "get_state_history"
    /\ query.out = NoAnswer
    /\ query' = [query EXCEPT
                    !.out = get_state_history(states, SiteName, query.before, query.after,
                                              query.min_results, utc)]
    /\ UNCHANGED <<site, sd, store, pg, pol>>

SpecRanges == InitRanges /\ [][ApplyGetStateHistory]_vars

\* ------------------------------------------------------------- the metrics
\* the while loop of get_state_history_since from row i on, newest row first:
\* the first row older than since is reported at since and ends the loop
RECURSIVE since_results(_, _, _)
since_results(rows, i, since) ==
    IF i > Len(rows) THEN <<>>
    ELSE LET timestamp == bytes_decode(rows[i].key).timestamp
         IN  IF timestamp < since
             THEN <<[timestamp |-> since, state |-> rows[i].value]>>
             ELSE <<[timestamp |-> timestamp, state |-> rows[i].value]>>
                    \o since_results(rows, i + 1, since)

\* Database::get_state_history_since: oldest first
get_state_history_since(table, service, since) ==
    reverse(since_results(rev_iter(rows_between(table, service, 0, i64_MAX)), 1, since))

\* "Duplicate the last element with current time"
with_now(state_history, now) ==
    IF state_history # <<>> /\ state_history[Len(state_history)].timestamp < now
    THEN Append(state_history, [timestamp |-> now, state |-> state_history[Len(state_history)].state])
    ELSE state_history

NoTotals == [total_uptime_ms |-> 0, total_available_ms |-> 0, total_hibernations |-> 0,
             start_durations_ms |-> <<>>]

\* a walk in which an Up site that becomes Unknown counts as a hibernation
pair_counting_unknown(totals, state1, state2, duration_ms) ==
    CASE state1 = "Up" /\ state2 # "Up" ->
            [totals EXCEPT !.total_available_ms = @ + duration_ms,
                           !.total_uptime_ms = @ + duration_ms,
                           !.total_hibernations = @ + 1]
      [] state1 = "Unknown" \/ state2 = "Unknown" -> totals
      [] state1 = "Up" ->
            [totals EXCEPT !.total_available_ms = @ + duration_ms,
                           !.total_uptime_ms = @ + duration_ms]
      [] state2 = "Up" ->
            [totals EXCEPT !.total_available_ms = @ + duration_ms,
                           !.start_durations_ms =
                                IF state1 = "Starting" THEN Append(@, duration_ms) ELSE @]
      [] OTHER -> [totals EXCEPT !.total_available_ms = @ + duration_ms]

\* handle_metrics_request: the match on (state1, state2) of one pair
pair(totals, state1, state2, duration_ms) ==
    CASE state1 = "Unknown" \/ state2 = "Unknown" -> totals
      [] state1 \in {"Down", "Starting"} /\ state2 \in {"Down", "Starting"} ->
            [totals EXCEPT !.total_available_ms = @ + duration_ms]
      [] state1 \in {"Down", "Starting"} /\ state2 = "Up" ->
            [totals EXCEPT !.total_available_ms = @ + duration_ms,
                           !.start_durations_ms =
                                IF state1 = "Starting" THEN Append(@, duration_ms) ELSE @]
      [] state1 = "Up" /\ state2 \in {"Down", "Starting"} ->
            [totals EXCEPT !.total_available_ms = @ + duration_ms,
                           !.total_uptime_ms = @ + duration_ms,
                           !.total_hibernations = @ + 1]
      [] state1 = "Up" /\ state2 = "Up" ->
            [totals EXCEPT !.total_available_ms = @ + duration_ms,
                           !.total_uptime_ms = @ + duration_ms]

\* handle_metrics_request: for i in 0..(state_history.len() - 1), instants in
\* seconds and durations in milliseconds
RECURSIVE walk(_, _, _)
walk(state_history, i, totals) ==
    IF i >= Len(state_history) THEN totals
    ELSE walk(state_history, i + 1,
              pair(totals, state_history[i].state, state_history[i + 1].state,
                   1000 * (state_history[i + 1].timestamp - state_history[i].timestamp)))

\* the number of start durations from lo up to hi (excluded)
bucket(start_durations_ms, lo, hi) ==
    Cardinality({i \in DOMAIN start_durations_ms :
                    lo <= start_durations_ms[i] /\ start_durations_ms[i] < hi})

\* handle_metrics_request for a configured site: an empty history makes
\* state_history.len() - 1 underflow and the task panics, in the subtraction
\* or in the indexing that follows; percentages in whole percents
handle_metrics_request(table, service, seconds, percentile, now) ==
    LET state_history == with_now(get_state_history_since(table, service, now - seconds), now)
        totals == walk(state_history, 1, NoTotals)
        estimate == get_start_duration_estimate(table, service, percentile)
    IN  IF state_history = <<>> THEN [kind |-> "panic", value |-> <<>>]
        ELSE IF estimate.kind = "panic" THEN [kind |-> "panic", value |-> <<>>]
        ELSE Response("200",
                [hibernating_percentage |->
                    IF totals.total_available_ms > 0
                    THEN ((totals.total_available_ms - totals.total_uptime_ms) * 100)
                            \div totals.total_available_ms
                    ELSE 0,
                 available_percentage |->
                    IF seconds > 0 THEN (totals.total_available_ms * 100) \div (seconds * 1000)
                    ELSE 0,
                 total_hibernations |-> totals.total_hibernations,
                 start_times_histogram |->
                    <<bucket(totals.start_durations_ms, 0, 1000),
                      bucket(totals.start_durations_ms, 1000, 5000),
                      bucket(totals.start_durations_ms, 5000, 10000),
                      bucket(totals.start_durations_ms, 10000, 30000),
                      bucket(totals.start_durations_ms, 30000, 1000 * i64_MAX)>>,
                 start_duration_estimate_ms |->
                    IF estimate.kind = "Ok" THEN Some(1000 * estimate.value) ELSE <<>>,
                 totals |-> totals])

\* the query parameter seconds: none of the period, a part of the history,
\* more than all of it
MetricsInputs ==
    [op : {"handle_metrics_request"}, service : {SiteName},
     seconds : {0, 2, MaxStamp + 2}, percentile : {50}, out : {NoAnswer}]

InitMetrics ==
    /\ Quiet /\ sd = NoSd /\ pg = NoPg /\ pol = NoPol
    /\ \E table \in Histories : StoreOf(table)
    /\ query \in MetricsInputs

\* GET /hibernator-api/services/{name}/metrics
ApplyHandleMetricsRequest ==
    /\ query.op = "handle_metrics_request"
    /\ query.out = NoAnswer
    /\ query' = [query EXCEPT
                    !.out = handle_metrics_request(states, query.service, query.seconds,
                                                   query.percentile, utc)]
    /\ UNCHANGED <<site, sd, store, pg, pol>>

SpecMetrics == InitMetrics /\ [][ApplyHandleMetricsRequest]_vars

\* ------------------------------------------------- the filters of a site
\* str::starts_with on byte strings
starts_with(str, prefix) ==
    /\ Len(prefix) <= Len(str)
    /\ \A i \in 1..Len(prefix) : str[i] = prefix[i]

\* GlobMatcher::is_match: a glob stands for the set of the paths it matches
is_match(glob, path) == path \in glob

\* should_be_processed; Option::unwrap on a missing X-Real-IP panics
should_be_processed(site_config, path, real_ip) ==
    IF /\ site_config.path_blacklist # <<>>
       /\ \E glob \in site_config.path_blacklist[1] : is_match(glob, path)
    THEN [kind |-> "Ok", value |-> FALSE]
    ELSE IF site_config.ip_blacklist # <<>> /\ real_ip = <<>>
    THEN [kind |-> "panic", value |-> FALSE]
    ELSE IF /\ site_config.ip_blacklist # <<>>
            /\ \E ip \in site_config.ip_blacklist[1] : starts_with(real_ip[1], ip)
    THEN [kind |-> "Ok", value |-> FALSE]
    ELSE IF site_config.ip_whitelist # <<>> /\ real_ip = <<>>
    THEN [kind |-> "panic", value |-> FALSE]
    ELSE IF site_config.ip_whitelist # <<>>
    THEN [kind |-> "Ok",
          value |-> \E ip \in site_config.ip_whitelist[1] : starts_with(real_ip[1], ip)]
    ELSE [kind |-> "Ok", value |-> TRUE]

\* request paths and the globs of a path_blacklist
Paths == {"/", "/admin"}
PathLists == {<<>>, Some({}), Some({{"/admin"}})}

\* addresses as byte strings, and the prefixes of an IP list
IpLists == {<<>>, Some({}), Some({<<1>>}), Some({<<1, 2>>, <<2>>})}
RealIps == {<<>>, Some(<<1, 1>>), Some(<<2, 1>>)}

FilterInputs ==
    [op : {"should_be_processed"},
     site_config : [path_blacklist : PathLists, ip_blacklist : IpLists, ip_whitelist : IpLists],
     path : Paths, real_ip : RealIps, out : {NoAnswer}]

InitFilter ==
    /\ Quiet /\ sd = NoSd /\ pg = NoPg /\ pol = NoPol /\ EmptyStore
    /\ query \in FilterInputs

\* handle_connection asks whether the request is to be processed
ApplyShouldBeProcessed ==
    /\ query.op = "should_be_processed"
    /\ query.out = NoAnswer
    /\ query' = [query EXCEPT
                    !.out = should_be_processed(query.site_config, query.path, query.real_ip)]
    /\ UNCHANGED <<site, sd, store, pg, pol>>

SpecFilter == InitFilter /\ [][ApplyShouldBeProcessed]_vars

\* ================================================================ claims

\* the greatest element of a non-empty set of instants
Latest(S) == CHOOSE x \in S : \A y \in S : y <= x

\* C10 (as stated): with a qualifying log line, t_last_action is the later of
\* the line's timestamp and the start time of the current state when that
\* state is not Unknown; the answer is Now iff now - t_last_action > keep_alive,
\* else NotUntil(t_last_action + keep_alive + 1)
C10_Stated ==
    (sd.out.kind # "none" /\ sd.inp.kind = "Line") =>
        LET t_last_action == IF sd.st # "Unknown"
                             THEN Latest({sd.inp.ts, sd.last_changed})
                             ELSE sd.inp.ts
        IN  sd.out = IF sd.t - t_last_action > KeepAlive
                     THEN [kind |-> "Now", at |-> NoTime]
                     ELSE [kind |-> "NotUntil", at |-> t_last_action + KeepAlive + 1]

\* C10 (amended): with a qualifying log line, t_last_action is the latest of
\* the line's timestamp, the recorded last start of the site if any and the
\* recorded last stop of the site if any; the answer is Now iff
\* now - t_last_action > keep_alive, else NotUntil(t_last_action + keep_alive + 1)
C10_LastAction ==
    (sd.out.kind # "none" /\ sd.inp.kind = "Line") =>
        LET t_last_action == Latest({sd.inp.ts}
                                    \cup ({sd.last_started, sd.last_stopped} \ {NoTime}))
        IN  sd.out = IF sd.t - t_last_action > KeepAlive
                     THEN [kind |-> "Now", at |-> NoTime]
                     ELSE [kind |-> "NotUntil", at |-> t_last_action + KeepAlive + 1]

\* a recorded stop, later than the line and than the start, postpones the shutdown
C10_Witness ==
    /\ sd.inp.kind = "Line"
    /\ sd.last_started # NoTime
    /\ sd.last_stopped > sd.last_started
    /\ sd.last_started > sd.inp.ts
    /\ sd.t - sd.inp.ts > KeepAlive
    /\ sd.out = [kind |-> "NotUntil", at |-> sd.last_stopped + KeepAlive + 1]

\* the command cmd is in the trace tr
Ran(cmd, tr) == \E i \in DOMAIN tr : tr[i] = cmd

\* how often the command cmd is in the trace tr
Times(cmd, tr) == Cardinality({i \in DOMAIN tr : tr[i] = cmd})

\* the step is handle() taking a wake-up and running start()
TakesWakeUp == ctl = "select" /\ start_channel = 1 /\ start_channel' = 0

\* C1: a wake-up sent while the site was Starting, and taken once the site is
\* Up, does not produce a second start command
C1_Stated ==
    [][(TakesWakeUp /\ wake = "starting" /\ get_state(state) = "Up")
            => ~Ran("systemctl start", calls')]_vars

\* C2: a wake-up sent by the wait page for a site that is Down, and that went
\* Down after its last start, is followed by the start command and Starting
C2_Stated ==
    [][(TakesWakeUp /\ wake = "down_page" /\ get_state(state) = "Down"
            /\ LAST_STARTED # NoTime /\ state_last_changed \div 1000 < LAST_STARTED)
            => (Ran("systemctl start", calls') /\ ctl' = "starting")]_vars

\* C3: a proxied request that arrived while the site was Up and the upstream
\* answering, both still so, is not left waiting until the proxy deadline; the
\* case taken is the one where the controller has taken the wake-up and is back
\* in its select, and the last start was marked before the request arrived
C3_Stated ==
    [][\A c \in Clients :
        (/\ client[c].pc = "waiting" /\ client[c].hot
         /\ backend /\ is_up(get_state(state))
         /\ ctl = "select" /\ start_channel = 0
         /\ client[c].t0 <= ProxyTimeout
         /\ LAST_STARTED <= KeepAlive /\ LAST_STARTED > client[c].t0)
            => client'[c].result # "ProxyTimeout"]_vars

\* C4: when check() finds a site that was Up healthy and should_shutdown
\* answers Now, it stores Down, switches the edge to the hibernating config and
\* runs systemctl stop exactly once; the state is Down unless the stop failed
C4_Shutdown ==
    (ctl = "checked" /\ local.entry = "Up" /\ local.decision = "Now") =>
        /\ Ran("state:Down", calls)
        /\ Ran("switch:hibernating", calls)
        /\ Times("systemctl stop", calls) = 1
        /\ "stop" \notin errors => get_state(state) = "Down"
        /\ "symlink" \notin errors => link = "hibernating"

\* an Up site, its edge on the available config, is shut down by check()
C4_Witness ==
    /\ ctl = "checked" /\ local.entry = "Up" /\ local.decision = "Now"
    /\ calls = <<"state:Down", "switch:hibernating", "nginx -s reload", "systemctl stop">>
    /\ get_state(state) = "Down"
    /\ link = "hibernating"

\* C5: taking a wake-up runs the start command if and only if the site is
\* neither Up nor Starting
C5_Stated ==
    [][TakesWakeUp
            => (Ran("systemctl start", calls')
                    <=> get_state(state) \notin {"Up", "Starting"})]_vars

\* C6: a waiter is notified only by the broadcast start() sends after storing Up
\* or Unknown, that broadcast notifies every connection then waiting, and a
\* waiter goes on to proxy only once notified
C6_Broadcast ==
    [][/\ \A c \in Clients :
            (~client[c].notified /\ client'[c].notified)
                => (ctl = "starting" /\ ctl' = "started"
                        /\ get_state(state') \in {"Up", "Unknown"})
       /\ (ctl = "starting" /\ ctl' = "started")
            => \A c \in Clients : client[c].pc = "waiting" => client'[c].notified
       /\ \A c \in Clients :
            (client[c].pc = "waiting" /\ client'[c].pc = "proxy") => client[c].notified
      ]_vars

\* two connections are released by the same broadcast
C6_Witness ==
    /\ ctl = "started"
    /\ Ran("broadcast", calls)
    /\ \A c \in Clients : client[c].pc = "waiting" /\ client[c].notified

C8_Stated ==
    (ctl = "started" /\ "start" \in errors)
        => (get_state(state) = "Unknown" /\ Ran("broadcast", calls))

InTimeout(c) == client[c].pc \in {"waiting", "proxy", "retry"}

\* C11: a request inside the wait-and-proxy phase is answered: once
\* proxy_timeout has elapsed the timeout can end it whatever it waits for (the
\* broadcast, an attempt, the sleep between attempts) and, the timers kept
\* going, it does get its answer; it ends with ProxyTimeout only from inside the
\* phase, not before the deadline, with 504, and nothing of the retry loop runs
\* after the answer
C11_ProxyTimeout ==
    /\ [](\A c \in OneClient :
            (InTimeout(c) /\ client[c].t0 >= ProxyTimeout) => ENABLED ProxyDeadline(c))
    /\ [][\A c \in OneClient :
            /\ (client[c].result # "ProxyTimeout" /\ client'[c].result = "ProxyTimeout")
                    => (/\ InTimeout(c) /\ client[c].t0 >= ProxyTimeout
                        /\ client'[c].pc = "done"
                        /\ client'[c].status = "504 Gateway Timeout")
            /\ client[c].pc = "done"
                    => (\/ client'[c].pc = "idle"
                        \/ /\ client'[c].pc = "done"
                           /\ client'[c].result = client[c].result
                           /\ client'[c].status = client[c].status)]_vars
    /\ \A c \in OneClient : InTimeout(c) ~> (client[c].pc = "done")

\* a request that never got the broadcast is answered 504 at the deadline
C11_Witness ==
    \E c \in OneClient :
        /\ client[c].pc = "done"
        /\ client[c].result = "ProxyTimeout"
        /\ client[c].status = "504 Gateway Timeout"
        /\ ctl = "starting"

\* the step is one try_proxy of connection c returning
Attempt(c) ==
    /\ client[c].pc = "proxy"
    /\ client'[c].pc # "proxy"
    /\ client'[c].result # "ProxyTimeout"

\* C12 (as stated): when a proxy attempt fails the request is answered 500 and
\* its result is ProxyFailed
C12_Stated ==
    [][\A c \in OneClient :
        (Attempt(c) /\ ~backend)
            => (/\ client'[c].result = "ProxyFailed"
                /\ client'[c].status = "500 Internal Server Error")]_vars

\* C12 (amended): when a proxy attempt fails the connection sleeps and tries
\* again; from the sleep it goes back to an attempt or is ended by the timeout;
\* no request ends with ProxyFailed
C12_Retry ==
    /\ [][\A c \in OneClient :
            /\ (Attempt(c) /\ ~backend)
                    => (client'[c].pc = "retry" /\ client'[c].result = "none")
            /\ (client[c].pc = "retry" /\ client'[c].pc # "retry")
                    => (client'[c].pc = "proxy" \/ client'[c].result = "ProxyTimeout")]_vars
    /\ [](\A c \in OneClient : client[c].result # "ProxyFailed")

\* an attempt on a site that is Up has failed and the connection sleeps
C12_Witness ==
    \E c \in OneClient :
        /\ client[c].pc = "retry"
        /\ is_up(get_state(state))
        /\ ~backend

\* connection c is accepted and handle_connection returns result at once
Returns(c, result) == client[c].pc = "idle" /\ client'[c].result = result

\* the step leaves the wake-up channel and the controller as they are
NoWake ==
    UNCHANGED <<start_channel, wake, state, state_last_changed, link, calls, ctl,
                LAST_STARTED>>

\* the task of connection c ends after handle_connection returned result
Ends(c, result) ==
    client[c].pc = "done" /\ client[c].result = result /\ client'[c].pc = "idle"

\* C13: a request the gating rules reject is answered 503 with the result
\* Ignored, sends no wake-up, runs no command and leaves the state of the site
\* as it is; its record is put when the task ends
C13_Ignored ==
    [][\A c \in OneClient :
        /\ Returns(c, "Ignored")
                => (/\ client'[c].pc = "done"
                    /\ client'[c].status = "503 Service Unavailable"
                    /\ NoWake)
        /\ Ends(c, "Ignored") => (client'[c].put /\ NoWake)]_vars

\* a rejected request has been answered while the site is Down and nothing
\* wakes it
C13_Witness ==
    \E c \in OneClient :
        /\ client[c].pc = "done"
        /\ client[c].result = "Ignored"
        /\ get_state(state) = "Down"
        /\ start_channel = 0
        /\ ctl = "select"

\* C16: a request without a Host header is answered 500 with the result
\* MissingHost, a request whose Host matches no site is answered 500 with the
\* result UnknownSite; neither sends a wake-up; their records are put when the
\* task ends
C16_NoSite ==
    [][\A c \in OneClient : \A r \in {"MissingHost", "UnknownSite"} :
        /\ Returns(c, r)
                => (/\ client'[c].pc = "done"
                    /\ client'[c].status = "500 Internal Server Error"
                    /\ NoWake)
        /\ Ends(c, r) => (client'[c].put /\ NoWake)]_vars

\* a request for an unknown site has been answered 500 while the site is
\* Down, was never started and no wake-up is pending
C16_Witness ==
    \E c \in OneClient :
        /\ client[c].pc = "done"
        /\ client[c].result = "UnknownSite"
        /\ client[c].status = "500 Internal Server Error"
        /\ get_state(state) = "Down"
        /\ start_channel = 0
        /\ LAST_STARTED = NoTime

\* C15: the task of an accepted connection whose target is not under
\* /hibernator-api/ ends having put exactly one record, whatever happened to
\* its request; the task of a request the API handled puts none
C15_Stated ==
    [][\A c \in OneClient :
        (client[c].pc \in {"done", "panicked"} /\ client'[c].pc = "idle")
            => (client'[c].put <=> client[c].result # "ApiHandled")]_vars

\* C18: a check() that finds the site in the state it re-asserts (Up on an Up
\* site, Down on a Down site) stores nothing, switches no link, reloads
\* nothing, runs no systemctl command, and leaves the time of the last state
\* change as it is
C18_Reassert ==
    [][(/\ ctl = "select" /\ ctl' = "checked"
        /\ \/ /\ backend /\ get_state(state) = "Up"
              /\ local'.decision \in {"NotUntil", "Err"}
           \/ ~backend /\ get_state(state) = "Down")
            => (/\ state' = state
                /\ state_last_changed' = state_last_changed
                /\ link' = link
                /\ calls' = <<>>)]_vars

\* check() has re-asserted Up on an Up site whose edge link is not the
\* available config, and has not touched the link
C18_Witness ==
    /\ ctl = "checked"
    /\ local.entry = "Up"
    /\ local.decision = "NotUntil"
    /\ get_state(state) = "Up"
    /\ link = "hibernating"
    /\ calls = <<>>

\* C14: the policy of a processed request is browser_proxy_mode when
\* is_browser, proxy_mode otherwise; should_proxy is true for Always, false for
\* Never, and for WhenReady true exactly when the state read is Up
C14_Policy ==
    pol.done =>
        LET policy == IF pol.is_browser THEN pol.cfg.browser_proxy_mode
                      ELSE pol.cfg.proxy_mode
        IN  /\ policy = "Always" => pol.out
            /\ policy = "Never" => ~pol.out
            /\ policy = "WhenReady" => (pol.out <=> pol.st = "Up")

\* a browser is refused the proxy on a Starting site while other clients
\* would always be proxied
C14_Witness ==
    /\ pol.is_browser
    /\ pol.cfg.browser_proxy_mode = "WhenReady"
    /\ pol.cfg.proxy_mode = "Always"
    /\ pol.st = "Starting"
    /\ pol.done
    /\ ~pol.out

\* C17 (as stated): get_progress returns a value only while the state is
\* Starting and eta_sample_size > 0; in every other state it returns nothing
C17_Stated ==
    pg.out.kind = "Some" => (pg.st = "Starting" /\ pg.eta_sample_size > 0)

\* C17 (amended): get_progress returns a value exactly when eta_sample_size > 0
\* and a duration estimate is available; the value is (elapsed, estimate) with
\* elapsed the time since the state began while the state is Starting, and 0 in
\* every other state
C17_Progress ==
    pg.out.kind # "none" =>
        /\ pg.out.kind = "Some" <=> (pg.eta_sample_size > 0 /\ pg.estimate # NoTime)
        /\ pg.out.kind = "Some" =>
                /\ pg.out.estimate = pg.estimate
                /\ pg.st = "Starting" => pg.out.done = pg.now_ms - pg.last_changed_ms
                /\ pg.st # "Starting" => pg.out.done = 0

\* after a start that timed out (Unknown, for a second already) get_progress
\* answers with no time elapsed and the estimate
C17_Witness ==
    /\ pg.st = "Unknown"
    /\ pg.now_ms > pg.last_changed_ms
    /\ pg.out.kind = "Some"
    /\ pg.out.done = 0
    /\ pg.out.estimate = pg.estimate

\* the rows of one site, by the decoded key
RowsOf(table, name) == {r \in table : bytes_decode(r.key).service = name}

\* the value of the highest-timestamp row of a site, "none" on an empty history
latest_state(table, name) ==
    IF RowsOf(table, name) = {} THEN "none"
    ELSE (CHOOSE r \in RowsOf(table, name) :
            \A q \in RowsOf(table, name) :
                bytes_decode(q.key).timestamp <= bytes_decode(r.key).timestamp).value

\* C19: the state the controller holds is the value of the highest-timestamp
\* row of the site in the states table, a site without history being Unknown
C19_Stated ==
    get_state(state) =
        (IF latest_state(states, SiteName) = "none" THEN "Unknown"
         ELSE latest_state(states, SiteName))

\* a try_update_state of writer w returns in this step
TryReturns(w) ==
    /\ writer[w].pc \in {"read", "put"}
    /\ writer[w].call.op = "try_update_state"
    /\ writer'[w].pc = "returned"

\* C20: try_update_state returns true exactly when the latest state of the
\* site is not among the excluded ones (no history: not excluded); on true one
\* row of that site with the new state is added and nothing else changes, on
\* false the table is unchanged; between the begin of a transaction and its
\* end no other writer changes the table
C20_TryUpdateState ==
    [][/\ \A w \in Writers :
            TryReturns(w) =>
                LET call == writer[w].call
                IN  /\ writer'[w].ret <=>
                            latest_state(states, call.name) \notin call.exclude_states
                    /\ writer'[w].ret =>
                            \E r \in states' :
                                /\ r \notin states
                                /\ states' = states \cup {r}
                                /\ Cardinality(states') = Cardinality(states) + 1
                                /\ bytes_decode(r.key).service = call.name
                                /\ r.value = call.new_state
                                /\ latest_state(states', call.name) = call.new_state
                    /\ ~writer'[w].ret => states' = states
       /\ \A w \in Writers :
            (writer[w].pc \in {"read", "put"} /\ states' # states)
                => (wtxn = w /\ writer'[w].pc = "returned")]_vars

\* C21: a write to the states table adds one row whose timestamp is greater
\* than that of every row the site already has, and leaves every existing row
\* as it is, also when the clock reads the same instant twice
C21_Stated ==
    [][states' # states =>
            \E r \in states' :
                /\ r \notin states
                /\ states' = states \cup {r}
                /\ \A q \in RowsOf(states, bytes_decode(r.key).service) :
                        bytes_decode(q.key).timestamp < bytes_decode(r.key).timestamp]_vars

\* C22: on a history with n >= 1 start-duration samples and a percentile p
\* between 0 and 100, 100 included, the estimate is the sample at index
\* floor(n * p / 100), and the call does not fault
C22_Stated ==
    LET values == start_durations(rev_range(states, SiteName), 1, <<>>, NoTime)
        idx == (Len(values) * query.percentile) \div 100
    IN  (/\ query.op = "get_start_duration_estimate"
         /\ query.out # NoAnswer
         /\ query.percentile \in 0..100
         /\ values # <<>>)
            => (/\ query.out.kind = "Ok"
                /\ idx + 1 \in DOMAIN values
                /\ query.out.value = values[idx + 1])

\* the instants of a result are in newest-first order
NewestFirst(entries) == \A i \in 1..(Len(entries) - 1) : entries[i].at >= entries[i + 1].at

\* every entry of a result passes the service filter
Matches(entries, service) ==
    \A i \in 1..Len(entries) : service = <<>> \/ entries[i].metadata.service = service

\* get_connection_history has answered a call with only before, or only after
Asked(before_set, after_set) ==
    /\ query.op = "get_connection_history"
    /\ query.out # NoAnswer
    /\ (query.before # <<>>) = before_set
    /\ (query.after # <<>>) = after_set

\* C23: with before, the history holds at most min entries, all below before
\* and of the service asked for, newest first; with after, at most min entries
\* above after, newest first
C23_Stated ==
    /\ Asked(TRUE, FALSE) =>
            /\ query.out.kind = "Ok"
            /\ Len(query.out.value) <= query.min_results
            /\ \A i \in 1..Len(query.out.value) : query.out.value[i].at < query.before[1]
            /\ Matches(query.out.value, query.service)
            /\ NewestFirst(query.out.value)
    /\ Asked(FALSE, TRUE) =>
            /\ query.out.kind = "Ok"
            /\ Len(query.out.value) <= query.min_results
            /\ \A i \in 1..Len(query.out.value) : query.out.value[i].at > query.after[1]
            /\ Matches(query.out.value, query.service)
            /\ NewestFirst(query.out.value)

\* C24: a request to history or to state-history with after and without
\* before is answered 200 with the records after that time: the store is
\* called with after alone
C24_Stated ==
    (/\ query.op \in {"handle_history_request", "handle_state_history_request"}
     /\ query.out # NoAnswer
     /\ query.after # <<>>
     /\ query.before = <<>>)
        => /\ query.out.kind = "200"
           /\ query.op = "handle_history_request" =>
                \E build \in Builds :
                    query.out.value =
                        get_connection_history(query.table, query.service, <<>>, query.after,
                                               query.min_results, build).value
           /\ (query.op = "handle_state_history_request" /\ query.service # <<>>) =>
                query.out.value =
                    entries_of(get_state_history(states, query.service[1], <<>>, query.after,
                                                 query.min_results, utc).value,
                               query.service)

\* the state history a metrics request walks
Walked == with_now(get_state_history_since(states, SiteName, utc - query.seconds), utc)

\* the pairs of the walk that go from a state of from to a state of to
Pairs(from, to) ==
    {i \in 1..(Len(Walked) - 1) : Walked[i].state \in from /\ Walked[i + 1].state \in to}

\* the milliseconds between the two ends of pair i
PairMs(i) == 1000 * (Walked[i + 1].timestamp - Walked[i].timestamp)

RECURSIVE SumMs(_)
SumMs(pairs) ==
    IF pairs = {} THEN 0
    ELSE LET i == CHOOSE i \in pairs : TRUE IN PairMs(i) + SumMs(pairs \ {i})

\* the metrics request has been answered
Measured == query.op = "handle_metrics_request" /\ query.out.kind = "200"

\* C25: in the walk over consecutive pairs, total_hibernations is the number
\* of pairs from Up to Down or Starting, the start durations are those of the
\* pairs from Starting to Up, in order, the uptime is the sum of the durations
\* of the pairs that begin in Up, and a pair with Unknown at either end adds
\* nothing to any total
C25_MetricsWalk ==
    Measured =>
        LET totals == query.out.value.totals
            known == SiteStates \ {"Unknown"}
            starts == Pairs({"Starting"}, {"Up"})
        IN  /\ totals.total_hibernations = Cardinality(Pairs({"Up"}, {"Down", "Starting"}))
            /\ Len(totals.start_durations_ms) = Cardinality(starts)
            /\ \A i \in starts :
                    totals.start_durations_ms[Cardinality({j \in starts : j <= i})] = PairMs(i)
            /\ totals.total_uptime_ms = SumMs(Pairs({"Up"}, known))
            /\ totals.total_available_ms = SumMs(Pairs(known, known))

\* a walk over Starting, Up, Unknown, Up and now has been measured: one start
\* of a second, no hibernation, the second before Unknown left out
C25_Witness ==
    /\ Measured
    /\ Len(Walked) = 5
    /\ Pairs({"Starting"}, {"Up"}) = {1}
    /\ Pairs({"Up"}, {"Unknown"}) = {2}
    /\ Pairs({"Unknown"}, {"Up"}) = {3}
    /\ query.out.value.totals.start_durations_ms = <<1000>>
    /\ query.out.value.totals.total_hibernations = 0
    /\ query.out.value.totals.total_uptime_ms = 1000
    /\ query.out.value.totals.total_available_ms = 2000

\* C26: one start() body at a time: a wake-up is received, and start() begun,
\* only from the select with no handler running; a start() in its health loop
\* leaves it only by storing Up or Unknown and returning to the select, and no
\* wake-up is received before that, whatever the connection tasks send
C26_OneStart ==
    [][/\ (start_channel = 1 /\ start_channel' = 0) => (ctl = "select" /\ local = NoLocal)
       /\ ctl # "select" => start_channel' >= start_channel
       /\ (ctl = "starting" /\ ctl' # "starting") =>
            (ctl' = "started" /\ get_state(state') \in {"Up", "Unknown"})
       /\ (ctl = "started" /\ ctl' # "started") => (ctl' = "select" /\ local' = NoLocal)]_vars

\* start() is in its health loop, both connections wait for it and a further
\* wake-up is held by the channel
C26_Witness ==
    /\ ctl = "starting"
    /\ get_state(state) = "Starting"
    /\ start_channel = 1
    /\ \A c \in Clients : client[c].pc = "waiting"

\* C27: check() and start() do not interleave and no wake-up is lost: the
\* timer branch leaves the channel as it is, a running check() returns to the
\* select before anything is received, a running start() returns to the select
\* before a check begins, and at the select a held wake-up can be received
C27_NoInterleaving ==
    /\ [](ctl = "select" /\ start_channel = 1 => ENABLED HandleStart)
    /\ [][/\ (ctl = "select" /\ ctl' = "checked") => start_channel' = start_channel
          /\ ctl = "checked" =>
                (ctl' \in {"checked", "select"} /\ start_channel' >= start_channel)
          /\ ctl \in {"starting", "started"} =>
                (/\ ctl' \in {"starting", "started", "select"}
                 /\ local'.decision = "none"
                 /\ LAST_STOPPED' \in {LAST_STOPPED, Older(LAST_STOPPED, Cap)})]_vars

\* check() has just stopped an Up site and has not returned yet; the channel
\* holds a wake-up that a wait page sent once the state was Down
C27_Witness ==
    /\ ctl = "checked"
    /\ local.entry = "Up"
    /\ local.decision = "Now"
    /\ get_state(state) = "Down"
    /\ start_channel = 1
    /\ wake = "down_page"

\* call `first` comes before every call `then` in the trace of the handler
Before(first, then) ==
    \A i \in DOMAIN calls :
        calls[i] = then => \E j \in 1..(i - 1) : calls[j] = first

\* the part of C28 about Down: the store of Down comes before the switch of
\* the edge to the hibernating config and before systemctl stop
DownFirst ==
    (ctl = "checked" /\ local.entry # "Down" /\ get_state(state) = "Down")
        => (Before("state:Down", "switch:hibernating") /\ Before("state:Down", "systemctl stop"))

\* C28: the new state is stored before the side effects of its transition:
\* Starting before systemctl start, Down before the switch of the edge and
\* before systemctl stop
C28_Stated ==
    /\ (\E i \in DOMAIN calls : calls[i] = "state:Starting")
            => Before("state:Starting", "systemctl start")
    /\ DownFirst

\* C29: trigger_start does not block and the channel holds at most one
\* wake-up: a connection can always be handled, and one handled while the
\* channel is full leaves the channel, the wake-up it holds, the state of the
\* site and the error lines as they are
C29_TriggerStart ==
    /\ [](start_channel \in {0, 1})
    /\ [](\A c \in Clients : client[c].pc = "idle" => ENABLED Accept(c))
    /\ [][\A c \in Clients :
            (client[c].pc = "idle" /\ client'[c].pc # "idle" /\ start_channel = 1)
                => (/\ start_channel' = 1
                    /\ wake' = wake
                    /\ state' = state
                    /\ errors' = errors)]_vars

\* two connections have sent a wake-up and start() has never run: the channel
\* holds one wake-up, the other one was dropped, and both handlers went on
C29_Witness ==
    /\ LAST_STARTED = NoTime
    /\ ctl = "select"
    /\ start_channel = 1
    /\ client[1].pc = "waiting"
    /\ client[2].pc = "done"
    /\ client[2].result = "Unproxied"
    /\ errors = {}

\* C30: when no line of the access log survives the filters, should_shutdown
\* answers NotUntil(now + keep_alive) for a site that is not Up; for an Up
\* site it answers Now exactly when now - t_s >= keep_alive, t_s the instant
\* the site became Up, and NotUntil(t_s + keep_alive) otherwise
C30_NoLine ==
    (sd.out.kind # "none" /\ sd.inp.kind = "NoLine") =>
        IF sd.st # "Up"
        THEN sd.out = [kind |-> "NotUntil", at |-> sd.t + KeepAlive]
        ELSE /\ sd.out.kind = "Now" <=> sd.t - sd.last_changed >= KeepAlive
             /\ sd.out.kind # "Now" =>
                    sd.out = [kind |-> "NotUntil", at |-> sd.last_changed + KeepAlive]

\* an Up site without any surviving line is checked exactly keep_alive after
\* it became Up, a recorded start being more recent than that: the answer is Now
C30_Witness ==
    /\ sd.inp.kind = "NoLine"
    /\ sd.st = "Up"
    /\ sd.last_changed > 0
    /\ sd.t - sd.last_changed = KeepAlive
    /\ sd.last_started > sd.last_changed
    /\ sd.out.kind = "Now"

\* the address of the request starts with an entry of the list; a request
\* without X-Real-IP starts with none
StartsWithOneOf(list) ==
    query.real_ip # <<>> /\ \E ip \in list[1] : starts_with(query.real_ip[1], ip)

\* C31: should_be_processed answers for every request, one without X-Real-IP
\* included, and answers false exactly when the path matches a glob of the
\* path blacklist, or an IP blacklist is set and the address starts with one
\* of its entries, or an IP whitelist is set and the address starts with none
C31_Stated ==
    (query.op = "should_be_processed" /\ query.out.kind # "none") =>
        /\ query.out.kind = "Ok"
        /\ query.out.value = FALSE <=>
            \/ /\ query.site_config.path_blacklist # <<>>
               /\ \E glob \in query.site_config.path_blacklist[1] : query.path \in glob
            \/ /\ query.site_config.ip_blacklist # <<>>
               /\ StartsWithOneOf(query.site_config.ip_blacklist)
            \/ /\ query.site_config.ip_whitelist # <<>>
               /\ ~StartsWithOneOf(query.site_config.ip_whitelist)

\* the switch of the edge or its reload has failed in the running handler
EdgeFailed == errors \cap {"symlink", "reload"} # {}

\* C32: a failure of the link switch or of the reload does not abort the
\* transition: after check() the state is the one the check decided (Down for
\* an unhealthy site, Up for a site kept up, Down after a stop that ran once,
\* Unknown only if the stop itself failed), after start() the state is Up and
\* the broadcast was sent, and the handler returns to the select
C32_EdgeFailure ==
    /\ []((ctl = "checked" /\ EdgeFailed) =>
            CASE local.decision = "none" -> get_state(state) = "Down"
              [] local.decision \in {"NotUntil", "Err"} -> get_state(state) = "Up"
              [] local.decision = "Now" ->
                    /\ Times("systemctl stop", calls) = 1
                    /\ get_state(state) = IF "stop" \in errors THEN "Unknown" ELSE "Down")
    /\ []((ctl = "started" /\ EdgeFailed) =>
            (get_state(state) = "Up" /\ Ran("broadcast", calls)))
    /\ [][(ctl \in {"checked", "started"} /\ EdgeFailed /\ ctl' # ctl)
            => (ctl' = "select" /\ state' = state)]_vars

\* check() has stopped an Up site although nginx could not be reloaded
C32_Witness ==
    /\ ctl = "checked"
    /\ local.entry = "Up"
    /\ local.decision = "Now"
    /\ "reload" \in errors
    /\ calls = <<"state:Down", "switch:hibernating", "nginx -s reload", "systemctl stop">>
    /\ get_state(state) = "Down"

\* the rows of the site that a call of get_state_history asks for
Window ==
    {r \in RowsOf(states, SiteName) :
        IF query.before # <<>> THEN bytes_decode(r.key).timestamp < query.before[1]
        ELSE bytes_decode(r.key).timestamp > query.after[1]}

\* the rows of the window from instant u to instant t
Within(u, t) ==
    {r \in Window : u <= bytes_decode(r.key).timestamp /\ bytes_decode(r.key).timestamp <= t}

\* the row of the window at t begins a run of rows of that state
BeginsRun(t, st) ==
    /\ \E r \in Window : bytes_decode(r.key).timestamp = t /\ r.value = st
    /\ \A r \in Window :
            bytes_decode(r.key).timestamp < t =>
                \E x \in Within(bytes_decode(r.key).timestamp, t) : x.value # st

\* C33: the ranges of get_state_history are chronological, adjacent ranges
\* differ in state, each range starts at the earliest row of its run and ends
\* where the next one starts, the last range ends now, and there are at most
\* min_results ranges
C33_Stated ==
    (query.op = "get_state_history" /\ query.out.kind # "none") =>
        LET ranges == query.out.value
        IN  /\ query.out.kind = "Ok"
            /\ \A i \in 1..(Len(ranges) - 1) :
                    /\ ranges[i].start_time < ranges[i + 1].start_time
                    /\ ranges[i].state # ranges[i + 1].state
                    /\ ranges[i].end_time = ranges[i + 1].start_time
            /\ \A i \in 1..Len(ranges) : BeginsRun(ranges[i].start_time, ranges[i].state)
            /\ ranges # <<>> => ranges[Len(ranges)].end_time = utc
            /\ Len(ranges) <= query.min_results

\* the records whose put has not committed yet
InFlight == {writer[w].metadata.url : w \in {x \in Writers : writer[x].pc \in {"get", "push"}}}

\* the records put under key at whose put has committed
Committed(at) == {k \in 1..Len(query.sent) : query.sent[k] = at /\ k \notin InFlight}

\* C34: whatever the interleaving of the puts, the list of a key holds every
\* record put under it once, and a put changes the list of its key only
C34_PutConnection ==
    /\ [](query.op = "put_connection_metadata" =>
            \A at \in DOMAIN connections :
                /\ Len(connections[at]) = Cardinality(Committed(at))
                /\ \A k \in Committed(at) :
                        \E i \in 1..Len(connections[at]) : connections[at][i].url = k)
    /\ [][\A at \in DOMAIN connections :
            connections'[at] # connections[at] =>
                \E w \in Writers :
                    /\ writer[w].pc = "push" /\ writer[w].at = at
                    /\ connections'[at] = Append(connections[at], writer[w].metadata)]_vars

\* two tasks have put their records under one key and a third put under that
\* key is on its way
C34_Witness ==
    /\ query.op = "put_connection_metadata"
    /\ query.sent = <<0, 0, 0>>
    /\ Len(connections[0]) = 2
    /\ writer[1].pc = "returned"
    /\ writer[2].pc = "push"

C36_Transient ==
    /\ get_state(state) = "Starting" => ctl = "starting"
    /\ ctl = "select" => get_state(state) # "Starting"
    /\ ctl = "checked" => local.entry \in SiteStates \ {"Starting"}
    /\ (ctl = "started" /\ Ran("state:Starting", calls)) =>
            get_state(state) \in {"Up", "Unknown"}

\* start() has given up on its timeout and returns with the state Unknown
C36_Witness ==
    /\ ctl = "started"
    /\ calls = <<"systemctl start", "state:Starting", "state:Unknown", "broadcast">>
    /\ get_state(state) = "Unknown"

\* C37: after set_state(s), get_state() returns s without a fault, for each
\* of the four states and in either controller
C37_Stated ==
    (query.op = "set_state" /\ query.sets # <<>>) =>
        query.out = query.sets[Len(query.sets)]

\* the instants read by calls of try_mark_started that returned true
Granted == {t \in 0..MaxClock : query.granted[t] > 0}

\* C38: of the calls of try_mark_started for one site, those that return true
\* read instants at least keep_alive apart, no two of them the same instant,
\* however the callers interleave; a call that returns false leaves the entry
\* of LAST_STARTED as it was
C38_Cooldown ==
    /\ [](query.op = "try_mark_started" =>
            /\ \A t \in Granted : query.granted[t] = 1
            /\ \A t1, t2 \in Granted : t1 < t2 => t2 - t1 >= KeepAlive)
    /\ [][\A c \in Clients :
            (/\ query.op = "try_mark_started"
             /\ query.caller[c].pc = "locked"
             /\ query'.caller[c].ret = "false")
                => query'.LAST_STARTED = query.LAST_STARTED]_vars

\* one caller was refused inside the cooldown of a start that another caller
\* marked at the same instant, and a later call was granted
C38_Witness ==
    /\ query.op = "try_mark_started"
    /\ Granted = {0, KeepAlive}
    /\ query.caller[1].ret = "true"
    /\ query.caller[2].ret = "false"
    /\ query.LAST_STARTED = KeepAlive

\* C39: the metrics request is answered for every history of the store, the
\* empty one too, and the uptime it sums is at most the available time
C39_Stated ==
    (query.op = "handle_metrics_request" /\ query.out.kind # "none") =>
        /\ query.out.kind = "200"
        /\ query.out.value.totals.total_uptime_ms
                <= query.out.value.totals.total_available_ms

\* C40: with keep_alive >= 1, check() returns in every branch a time at least
\* a second after the one it was called at, the loop waits until that time,
\* and the time left shrinks only as the clock advances: check() does not run
\* again before a second has passed
C40_NextCheck ==
    [][/\ (ctl = "select" /\ ctl' = "checked") => (next_check = 0 /\ local'.ret >= 1)
       /\ (ctl = "checked" /\ ctl' = "select") => next_check' = local.ret
       /\ (next_check' < next_check \/ (ctl' = ctl /\ local'.ret < local.ret)) => Tick]_vars

\* check() has kept the site up and asks for the next check a second later
C40_Witness ==
    /\ ctl = "checked"
    /\ local.decision = "NotUntil"
    /\ local.ret = 1
    /\ KeepAlive >= 1
====
